---- MODULE Spec2Model ----
(***************************************************************************)
(* Model of the analytics aggregation engine of the admin console          *)
(* (src/src/app/services/admin-dashboard.service.ts, AdminDashboardService).*)
(*                                                                         *)
(* The module holds several specifications over one set of variables:      *)
(*   SpecCurrency   the single-flight currency resolver under concurrent   *)
(*                  callers (promise settlement is a sequence of steps);   *)
(*   SpecAggregate  the aggregate-or-scan operations on a record store;    *)
(*   SpecActivity   the activity feed merger;                              *)
(*   SpecSnapshot   the public entry points, one invocation at a time.     *)
(***************************************************************************)
EXTENDS Integers, Sequences, FiniteSets, TLC

\* ------------------------------------------------------------------ bounds
\* Concurrent resolveCurrencyCode invocations in SpecCurrency.
NumCallers == 3
\* Documents per collection of the record stores the specifications start from.
MaxDocs == 2
\* Instants are the integers 0..MaxTime (milliseconds, abstractly).
MaxTime == 2
\* Documents of the record stores of SpecActivity, over all collections.
MaxFeedDocs == 3
\* The largest cap (maxItems) asked of the activity feed.
MaxItems == 3
\* The units of the model's calendar.
TicksPerHour == 2
HoursPerDay == 2
DaysPerMonth == 2
MonthsPerYear == 2
\* The largest small amount calculateChange is tried on.
MaxAmount == 4
\* Calls of logPageView and logQuoteRequest, and calls of clearGeoCache.
NumLogCalls == 2
MaxClears == 1

\* ------------------------------------------------------------------ values
\* null / undefined / a field that a record does not carry.
Null == "null"
Absent == "absent"

VARIABLES
  cachedCurrencyCode,   \* AdminDashboardService.cachedCurrencyCode
  currencyResolver,     \* AdminDashboardService.currencyResolver: 0 (null) or a promise id
  promises,             \* the promises built by resolveCurrencyCode, by id
  callers,              \* the position of every resolveCurrencyCode invocation
  store,                \* the record store: collection name -> documents
  now,                  \* the wall clock, as `new Date()` reads it
  call,                 \* the last invocation of an engine operation and its result
  logger                \* AnalyticsLoggerService: its fields, its calls and what they logged

currencyVars == <<cachedCurrencyCode, currencyResolver, promises, callers>>
storeVars == <<store, now>>

vars ==
  <<cachedCurrencyCode, currencyResolver, promises, callers, store, now, call, logger>>

\* ------------------------------------------------------- currency resolver
Callers == 1..NumCallers
\* Every invocation builds at most one promise, so ids never run out.
PromiseIds == 1..NumCallers

\* String.prototype.toUpperCase on the strings the model uses.
ToUpperCase(s) ==
  CASE s = "eur" -> "EUR"
    [] s = "usd" -> "USD"
    [] s = "br" -> "BR"
    [] s = "Narnia" -> "NARNIA"
    [] OTHER -> s

\* What settings.stripeCurrency can hold: unset, or a code in either case.
StripeCurrencies == {Absent, "eur", "EUR", "usd"}

\* A getSettings() call ends fulfilled with some settings or rejected.
FetchOutcomes == {"rejected"} \cup StripeCurrencies

\* .then(settings => (settings.stripeCurrency || 'USD').toUpperCase()).catch(() => 'USD')
ResolvedCode(outcome) ==
  IF outcome = "rejected" THEN "USD"
  ELSE ToUpperCase(IF outcome = Absent THEN "USD" ELSE outcome)

NoPromise == [state |-> "none", outcome |-> Null, value |-> Null, waiters |-> <<>>]

IdleCaller == [pc |-> "idle", awaits |-> 0, issued |-> FALSE, result |-> Null]

InitCurrency ==
  /\ cachedCurrencyCode = Null
  /\ currencyResolver = 0
  /\ promises = [p \in PromiseIds |-> NoPromise]
  /\ callers = [c \in Callers |-> IdleCaller]

FreshPromise == CHOOSE p \in PromiseIds : promises[p].state = "none"

\* The synchronous part of resolveCurrencyCode, up to its await (or its return
\* of the cached value).
Call(c) ==
  /\ callers[c].pc = "idle"
  /\ IF cachedCurrencyCode # Null
       THEN /\ callers' = [callers EXCEPT ![c] =
                 [pc |-> "done", awaits |-> 0, issued |-> FALSE,
                  result |-> cachedCurrencyCode]]
            /\ UNCHANGED <<cachedCurrencyCode, currencyResolver, promises>>
       ELSE IF currencyResolver = 0
         THEN LET p == FreshPromise IN
              /\ currencyResolver' = p
              /\ promises' = [promises EXCEPT ![p] =
                   [state |-> "pending", outcome |-> Null, value |-> Null,
                    waiters |-> <<c>>]]
              /\ callers' = [callers EXCEPT ![c] =
                   [pc |-> "awaiting", awaits |-> p, issued |-> TRUE, result |-> Null]]
              /\ UNCHANGED cachedCurrencyCode
         ELSE LET p == currencyResolver IN
              /\ promises' = [promises EXCEPT ![p].waiters = Append(@, c)]
              /\ callers' = [callers EXCEPT ![c] =
                   [pc |-> "awaiting", awaits |-> p, issued |-> FALSE, result |-> Null]]
              /\ UNCHANGED <<cachedCurrencyCode, currencyResolver>>

\* getSettings() settles and the then/catch reactions compute the code.
FetchSettles(p, outcome) ==
  /\ promises[p].state = "pending"
  /\ promises' = [promises EXCEPT ![p].state = "settled",
                                  ![p].outcome = outcome,
                                  ![p].value = ResolvedCode(outcome)]
  /\ UNCHANGED <<cachedCurrencyCode, currencyResolver, callers>>

\* The finally reaction clears the in-flight handle; the chained promise is
\* fulfilled after it, and its awaiters are resumed in later jobs.
FinallyRuns(p) ==
  /\ promises[p].state = "settled"
  /\ currencyResolver' = 0
  /\ promises' = [promises EXCEPT ![p].state = "fulfilled"]
  /\ UNCHANGED <<cachedCurrencyCode, callers>>

\* The continuation of `this.cachedCurrencyCode = await this.currencyResolver`,
\* awaiters in the order they began to wait.
Resume(c) ==
  /\ callers[c].pc = "awaiting"
  /\ LET p == callers[c].awaits IN
     /\ promises[p].state = "fulfilled"
     /\ promises[p].waiters # <<>>
     /\ Head(promises[p].waiters) = c
     /\ cachedCurrencyCode' = promises[p].value
     /\ callers' = [callers EXCEPT ![c].pc = "done",
                                   ![c].result = promises[p].value]
     /\ promises' = [promises EXCEPT ![p].waiters = Tail(@)]
  /\ UNCHANGED currencyResolver

NextCurrency ==
  \/ \E c \in Callers : Call(c) /\ UNCHANGED <<store, now, call, logger>>
  \/ \E p \in PromiseIds, o \in FetchOutcomes :
       FetchSettles(p, o) /\ UNCHANGED <<store, now, call, logger>>
  \/ \E p \in PromiseIds : FinallyRuns(p) /\ UNCHANGED <<store, now, call, logger>>
  \/ \E c \in Callers : Resume(c) /\ UNCHANGED <<store, now, call, logger>>

\* Settings fetches issued so far (calls of SettingsService.getSettings).
FetchesIssued == Cardinality({p \in PromiseIds : promises[p].state # "none"})

\* --------------------------------------------------------- analytics logger
LogCallers == 1..NumLogCalls

\* Geo data: the empty object, what the IP lookup answers, and what the
\* timezone table gives when the lookup fails (a match, or nothing).
EmptyGeo == "{}"
IpGeo == "BR"
TimezoneGeos == {"US", EmptyGeo}

IdleLogCall == [pc |-> "idle", kind |-> Null, geo |-> Null]

\* The service as constructed. `lookups` counts the IP lookups issued since the
\* last clearGeoCache, `lookup` is the state of the latest one, `events` are
\* the documents added to pageViews and quotes.
NewLogger ==
  [geoDataCache |-> Null, geoFetchAttempted |-> FALSE,
   lookups |-> 0, lookup |-> "none", clears |-> 0,
   calls |-> [c \in LogCallers |-> IdleLogCall], events |-> {}]

\* A call that resumes in a microtask, before any further response arrives.
ResumesNext(c) == logger.calls[c].pc \in {"browser", "ipdone"}

\* logPageView or logQuoteRequest is called and calls getGeoData: with a cache
\* it takes the cached data and adds its document, without one it awaits
\* getGeoFromBrowser.
LogCall(c, kind) ==
  /\ logger.calls[c].pc = "idle"
  /\ \A d \in LogCallers : logger.calls[d].pc # "ipdone"
  /\ logger' = [logger EXCEPT !.calls[c] =
       IF logger.geoDataCache # Null
         THEN [pc |-> "adding", kind |-> kind, geo |-> logger.geoDataCache]
         ELSE [pc |-> "browser", kind |-> kind, geo |-> Null]]
  /\ UNCHANGED <<currencyVars, storeVars, call>>

\* getGeoData resumes with the empty browser data and calls getGeoFromIP, which
\* returns {} when a lookup was attempted, and otherwise sets the flag and
\* issues the lookup.
GetGeoFromIP(c) ==
  /\ logger.calls[c].pc = "browser"
  /\ logger' =
       IF logger.geoFetchAttempted
         THEN [logger EXCEPT !.calls[c].pc = "ipdone", !.calls[c].geo = EmptyGeo]
         ELSE [logger EXCEPT !.geoFetchAttempted = TRUE,
                             !.lookups = @ + 1, !.lookup = "inflight",
                             !.calls[c].pc = "fetching"]
  /\ UNCHANGED <<currencyVars, storeVars, call>>

\* The lookup answers: with the country data, or with a failure, and then
\* getGeoFromTimezone gives what the timezone table holds.
IpLookupSettles(c, ok, timezoneGeo) ==
  /\ logger.calls[c].pc = "fetching"
  /\ \A d \in LogCallers : ~ResumesNext(d)
  /\ logger' = [logger EXCEPT !.lookup = IF ok THEN "ok" ELSE "failed",
                              !.calls[c].pc = "ipdone",
                              !.calls[c].geo = IF ok THEN IpGeo ELSE timezoneGeo]
  /\ UNCHANGED <<currencyVars, storeVars, call>>

\* getGeoData resumes with the IP data, stores { ...browserGeo, ...ipGeo } in
\* the cache and returns it; the caller builds its document and adds it.
CacheGeoData(c) ==
  /\ logger.calls[c].pc = "ipdone"
  /\ logger' = [logger EXCEPT !.geoDataCache = logger.calls[c].geo,
                              !.calls[c].pc = "adding"]
  /\ UNCHANGED <<currencyVars, storeVars, call>>

\* addDoc settles: the document is in its collection, or the call fails.
AddDocSettles(c, ok) ==
  /\ logger.calls[c].pc = "adding"
  /\ \A d \in LogCallers : ~ResumesNext(d)
  /\ logger' = [logger EXCEPT
       !.calls[c].pc = "done",
       !.events = IF ok THEN @ \cup {[by |-> c, kind |-> logger.calls[c].kind,
                                      geo |-> logger.calls[c].geo]}
                  ELSE @]
  /\ UNCHANGED <<currencyVars, storeVars, call>>

clearGeoCache ==
  /\ logger.clears < MaxClears
  /\ \A d \in LogCallers : logger.calls[d].pc # "ipdone"
  /\ logger' = [logger EXCEPT !.geoDataCache = Null, !.geoFetchAttempted = FALSE,
                              !.lookups = 0, !.clears = @ + 1]
  /\ UNCHANGED <<currencyVars, storeVars, call>>

NextLogger ==
  \/ \E c \in LogCallers, kind \in {"logPageView", "logQuoteRequest"} : LogCall(c, kind)
  \/ \E c \in LogCallers : GetGeoFromIP(c)
  \/ \E c \in LogCallers, ok \in BOOLEAN, tz \in TimezoneGeos : IpLookupSettles(c, ok, tz)
  \/ \E c \in LogCallers : CacheGeoData(c)
  \/ \E c \in LogCallers, ok \in BOOLEAN : AddDocSettles(c, ok)
  \/ clearGeoCache

\* ------------------------------------------------------------ record store
Collections == {"orders", "users", "products", "media", "productReviews", "quotes"}

\* Field values of the loosely typed documents.
NoField == [k |-> "absent", v |-> 0]
Ts(t) == [k |-> "ts", v |-> t]      \* a Firestore Timestamp at instant t
Num(n) == [k |-> "num", v |-> n]    \* a number
Str(n) == [k |-> "str", v |-> n]    \* a string that Number()/Date.parse() read as n
NanStr == [k |-> "nanstr", v |-> 0] \* a string that parses to NaN

\* A document; status, relatedEntityType and the country fields are strings
\* or Absent, an address is a record of two such strings, items is a sequence
\* of order lines. Amounts (total, totalAmount, costPrice, price) are integers,
\* in hundredths of the currency unit.
NoAddress == [countryCode |-> Absent, country |-> Absent]

Doc(createdAt, updatedAt, uploadedAt, status, total, relatedEntityType) ==
  [id |-> 0, createdAt |-> createdAt, updatedAt |-> updatedAt,
   uploadedAt |-> uploadedAt, status |-> status, total |-> total,
   relatedEntityType |-> relatedEntityType,
   totalAmount |-> NoField, costPrice |-> NoField, items |-> <<>>,
   countryCode |-> Absent, country |-> Absent,
   shippingAddress |-> NoAddress, billingAddress |-> NoAddress,
   customerCountry |-> Absent]

\* Documents are identified by their place in the collection.
WithIds(docs) == [i \in 1..Len(docs) |-> [docs[i] EXCEPT !.id = i]]

EmptyStore == [c \in Collections |-> <<>>]

\* String.prototype.toLowerCase on the strings the model uses.
ToLowerCase(s) ==
  CASE s = "Pending" -> "pending"
    [] s = "PENDING" -> "pending"
    [] s = "Completed" -> "completed"
    [] s = "Shipped" -> "shipped"
    [] OTHER -> s

extractTimestamp(value) ==
  CASE value.k = "absent" -> now
    [] value.k = "ts" -> value.v
    [] value.k = "num" -> IF value.v = 0 THEN now ELSE value.v
    [] value.k = "str" -> value.v
    [] OTHER -> now

normalizeNumber(value) ==
  CASE value.k = "num" -> value.v
    [] value.k = "str" -> value.v
    [] OTHER -> 0

\* `typeof total === 'number' ? total : Number(total ?? 0)`, with its NaN test.
TotalIsNaN(value) == value.k = "nanstr"
TotalNumber(value) ==
  CASE value.k = "num" -> value.v
    [] value.k = "str" -> value.v
    [] OTHER -> 0

RECURSIVE SumSeq(_)
SumSeq(s) == IF s = <<>> THEN 0 ELSE Head(s) + SumSeq(Tail(s))

\* Math.round(n / d) for d > 0 (halves round up).
RoundDiv(n, d) == (2 * n + d) \div (2 * d)

\* The outcome of an asynchronous operation: fulfilled with a value, or rejected.
Ok(v) == [ok |-> TRUE, value |-> v]
Rejected == [ok |-> FALSE, value |-> Null]

\* ---- what the record store answers
\* where(field, '>=', Timestamp start), where(field, '<', Timestamp end): a
\* range filter matches only values of the type of its bounds.
InRangeOnServer(value, range) ==
  value.k = "ts" /\ range.start <= value.v /\ value.v < range.end

\* sum('total'): the numeric values of the field; other values are ignored.
ServerSum(docs) ==
  SumSeq([i \in 1..Len(docs) |->
            IF docs[i].total.k = "num" THEN docs[i].total.v ELSE 0])

\* Firestore's order of values of different types: numbers, timestamps, strings.
TypeRank(value) ==
  CASE value.k = "num" -> 1
    [] value.k = "ts" -> 2
    [] OTHER -> 3

\* d comes before e in orderBy(field, 'desc'); ties go by document name.
BeforeDesc(d, e, field) ==
  \/ TypeRank(d[field]) > TypeRank(e[field])
  \/ /\ TypeRank(d[field]) = TypeRank(e[field])
     /\ \/ d[field].v > e[field].v
        \/ d[field].v = e[field].v /\ d.id > e.id

RECURSIVE InsertDesc(_, _, _)
InsertDesc(d, sorted, field) ==
  IF sorted = <<>> THEN <<d>>
  ELSE IF BeforeDesc(d, Head(sorted), field) THEN <<d>> \o sorted
  ELSE <<Head(sorted)>> \o InsertDesc(d, Tail(sorted), field)

RECURSIVE SortDesc(_, _)
SortDesc(docs, field) ==
  IF docs = <<>> THEN <<>>
  ELSE InsertDesc(Head(docs), SortDesc(Tail(docs), field), field)

\* getDocs(query(ref, orderBy(field, 'desc'))): the documents that carry the
\* field, in descending order of it.
OrderByDesc(docs, field) ==
  SortDesc(SelectSeq(docs, LAMBDA d : d[field].k # "absent"), field)

\* limit(n)
Limit(docs, n) == SubSeq(docs, 1, IF Len(docs) < n THEN Len(docs) ELSE n)

\* ------------------------------------------------- aggregate-or-scan
\* The range test with an inclusive end.
InRange_ClosedEnd(t, range) == t >= range.start /\ t <= range.end

InRange(t, range) == t >= range.start /\ t < range.end

OrdersAggregate(countValue, revenueValue) ==
  [count |-> countValue,
   revenue |-> revenueValue,
   average |-> IF countValue > 0 THEN RoundDiv(revenueValue, countValue) ELSE 0]

aggregateOrdersServer(range) ==
  LET hit == SelectSeq(store["orders"],
                       LAMBDA d : InRangeOnServer(d.createdAt, range))
  IN OrdersAggregate(normalizeNumber(Num(Len(hit))),
                     normalizeNumber(Num(ServerSum(hit))))

aggregateOrdersScan(range) ==
  LET snapshot == OrderByDesc(store["orders"], "createdAt")
      hit == SelectSeq(snapshot,
                       LAMBDA d : InRange(extractTimestamp(d.createdAt), range))
      totals == [i \in 1..Len(hit) |->
                   IF TotalIsNaN(hit[i].total) THEN 0 ELSE TotalNumber(hit[i].total)]
  IN OrdersAggregate(Len(hit), SumSeq(totals))

aggregateOrders_NoFallback(range, serverFails, scanFails) ==
  IF ~serverFails THEN Ok(aggregateOrdersServer(range)) ELSE Rejected

aggregateOrders(range, serverFails, scanFails) ==
  IF ~serverFails THEN Ok(aggregateOrdersServer(range))
  ELSE IF ~scanFails THEN Ok(aggregateOrdersScan(range))
  ELSE Rejected

\* options: fallbackField, additionalFilters (a server-side
\* where('relatedEntityType', '==', x)) and filterPredicate (its client-side
\* twin), each Absent when not given.
NoOptions ==
  [fallbackField |-> Absent, additionalFilters |-> Absent, filterPredicate |-> Absent]

countDocumentsInRangeServer(collectionPath, timestampField, range, options) ==
  Len(SelectSeq(store[collectionPath],
        LAMBDA d : /\ InRangeOnServer(d[timestampField], range)
                   /\ \/ options.additionalFilters = Absent
                      \/ d.relatedEntityType = options.additionalFilters))

countDocumentsInRangeScan(collectionPath, timestampField, range, options) ==
  LET orderField == IF options.fallbackField # Absent
                      THEN options.fallbackField ELSE timestampField
      fallbackRef == OrderByDesc(store[collectionPath], orderField)
      Stamp(d) == IF d[timestampField].k # "absent" THEN d[timestampField]
                  ELSE IF options.fallbackField # Absent
                    THEN d[options.fallbackField] ELSE NoField
  IN Len(SelectSeq(fallbackRef,
        LAMBDA d : /\ \/ options.filterPredicate = Absent
                      \/ d.relatedEntityType = options.filterPredicate
                   /\ InRange(extractTimestamp(Stamp(d)), range)))

countDocumentsInRange(collectionPath, timestampField, range, options, serverFails, scanFails) ==
  IF ~serverFails
    THEN Ok(normalizeNumber(Num(
           countDocumentsInRangeServer(collectionPath, timestampField, range, options))))
  ELSE IF ~scanFails
    THEN Ok(countDocumentsInRangeScan(collectionPath, timestampField, range, options))
  ELSE Rejected

getOrdersSummaryServer ==
  [total |-> normalizeNumber(Num(Len(store["orders"]))),
   pending |-> normalizeNumber(Num(Len(SelectSeq(store["orders"],
                                  LAMBDA d : d.status = "pending")))),
   revenue |-> normalizeNumber(Num(ServerSum(store["orders"])))]

getOrdersSummaryScan ==
  LET docs == store["orders"]
      StatusOf(d) == ToLowerCase(IF d.status \in {Absent, ""} THEN "pending" ELSE d.status)
  IN [total |-> Len(docs),
      pending |-> Len(SelectSeq(docs, LAMBDA d : StatusOf(d) = "pending")),
      revenue |-> SumSeq([i \in 1..Len(docs) |->
                    IF TotalIsNaN(docs[i].total) THEN 0 ELSE TotalNumber(docs[i].total)])]

\* The three server aggregates run under one Promise.all: one failure is enough.
getOrdersSummary(serverFails, scanFails) ==
  IF ~serverFails THEN Ok(getOrdersSummaryServer)
  ELSE IF ~scanFails THEN Ok(getOrdersSummaryScan)
  ELSE Rejected

getCollectionCount(path, serverFails, scanFails) ==
  IF ~serverFails THEN Ok(normalizeNumber(Num(Len(store[path]))))
  ELSE IF ~scanFails THEN Ok(Len(store[path]))
  ELSE Rejected

GalleryCount ==
  Len(SelectSeq(store["media"], LAMBDA d : d.relatedEntityType = "gallery"))

getGalleryImagesCount(serverFails, scanFails) ==
  IF ~serverFails THEN Ok(normalizeNumber(Num(GalleryCount)))
  ELSE IF ~scanFails THEN Ok(GalleryCount)
  ELSE Rejected

PendingReviews ==
  Len(SelectSeq(store["productReviews"], LAMBDA d : d.status = "pending"))

getPendingReviewsCount(serverFails, scanFails) ==
  IF ~serverFails THEN Ok(normalizeNumber(Num(PendingReviews)))
  ELSE IF ~scanFails THEN Ok(PendingReviews)
  ELSE Rejected

\* The range-count calls getAnalyticsSnapshot makes, by metric.
RangeCountArgs(metric) ==
  CASE metric = "newCustomers" ->
         [collectionPath |-> "users", timestampField |-> "createdAt",
          options |-> NoOptions]
    [] metric = "productsUpdated" ->
         [collectionPath |-> "products", timestampField |-> "updatedAt",
          options |-> [NoOptions EXCEPT !.fallbackField = "createdAt"]]
    [] OTHER ->
         [collectionPath |-> "media", timestampField |-> "uploadedAt",
          options |-> [NoOptions EXCEPT !.additionalFilters = "gallery",
                                        !.filterPredicate = "gallery"]]

RangeCountMetrics == {"newCustomers", "productsUpdated", "galleryUploads"}

\* Ranges end no later than the instant they were computed at.
Ranges == {[start |-> a, end |-> b] : a \in 0..MaxTime, b \in 0..MaxTime}
DateRanges == {r \in Ranges : r.start <= r.end /\ r.end <= now}

NoCall == [op |-> "none"]

AggregateOrdersCall(range, serverFails, scanFails) ==
  /\ call.op = "none"
  /\ call' = [op |-> "aggregateOrders", range |-> range,
              serverFails |-> serverFails, scanFails |-> scanFails,
              result |-> aggregateOrders(range, serverFails, scanFails)]
  /\ UNCHANGED <<currencyVars, storeVars, logger>>

CountDocumentsInRangeCall(metric, range, serverFails, scanFails) ==
  /\ call.op = "none"
  /\ LET a == RangeCountArgs(metric) IN
     call' = [op |-> "countDocumentsInRange", metric |-> metric, range |-> range,
              serverFails |-> serverFails, scanFails |-> scanFails,
              result |-> countDocumentsInRange(a.collectionPath, a.timestampField,
                           range, a.options, serverFails, scanFails)]
  /\ UNCHANGED <<currencyVars, storeVars, logger>>

GetOrdersSummaryCall(serverFails, scanFails) ==
  /\ call.op = "none"
  /\ call' = [op |-> "getOrdersSummary",
              serverFails |-> serverFails, scanFails |-> scanFails,
              result |-> getOrdersSummary(serverFails, scanFails)]
  /\ UNCHANGED <<currencyVars, storeVars, logger>>

GetCollectionCountCall(path, serverFails, scanFails) ==
  /\ call.op = "none"
  /\ call' = [op |-> "getCollectionCount", path |-> path,
              serverFails |-> serverFails, scanFails |-> scanFails,
              result |-> getCollectionCount(path, serverFails, scanFails)]
  /\ UNCHANGED <<currencyVars, storeVars, logger>>

\* An invocation has returned to its caller.
Return ==
  /\ call.op # "none"
  /\ call' = NoCall
  /\ UNCHANGED <<currencyVars, storeVars, logger>>

\* ---- the record stores SpecAggregate starts from: one collection holds up
\* to MaxDocs documents, each the plain document of its kind with one field
\* in another shape.
TimeShapes == {NoField, NanStr, Num(1), Str(1)} \cup {Ts(t) : t \in 0..MaxTime}
StatusShapes == {Absent, "pending", "Pending", "completed"}
TotalShapes == {NoField, Num(500), Num(250), Str(500), NanStr}

PlainOrder == Doc(Ts(1), NoField, NoField, "completed", Num(500), Absent)
OrderShapes ==
  {[PlainOrder EXCEPT !.createdAt = t] : t \in TimeShapes}
    \cup {[PlainOrder EXCEPT !.status = s] : s \in StatusShapes}
    \cup {[PlainOrder EXCEPT !.total = x] : x \in TotalShapes}
UserShapes ==
  {Doc(t, NoField, NoField, Absent, NoField, Absent) : t \in TimeShapes}
StampShapes == {NoField} \cup {Ts(t) : t \in 0..MaxTime}
ProductShapes ==
  {Doc(c, u, NoField, Absent, NoField, Absent) :
     c \in {NoField, Ts(1)}, u \in StampShapes}
MediaShapes ==
  {Doc(NoField, NoField, u, Absent, NoField, r) :
     u \in StampShapes, r \in {"gallery", "product"}}

ShapesOf(c) ==
  CASE c = "orders" -> OrderShapes
    [] c = "users" -> UserShapes
    [] c = "products" -> ProductShapes
    [] OTHER -> MediaShapes

RECURSIVE SetToSeq(_)
SetToSeq(S) ==
  IF S = {} THEN <<>>
  ELSE LET x == CHOOSE y \in S : TRUE IN <<x>> \o SetToSeq(S \ {x})

\* The collections of up to n documents of S, one arrangement of each (the
\* aggregates do not depend on the order of a collection).
CollectionsUpTo(S, n) ==
  LET shapes == SetToSeq(S) IN
  UNION {{[i \in 1..k |-> shapes[f[i]]] :
            f \in {g \in [1..k -> 1..Len(shapes)] :
                     \A i \in 1..k, j \in 1..k : i < j => g[i] <= g[j]}} :
         k \in 0..n}

InitAggregate ==
  /\ InitCurrency
  /\ now = MaxTime
  /\ \E c \in {"orders", "users", "products", "media"} :
     \E docs \in CollectionsUpTo(ShapesOf(c), MaxDocs) :
       store = [EmptyStore EXCEPT ![c] = WithIds(docs)]
  /\ call = NoCall
  /\ logger = NewLogger

NextAggregate ==
  \/ \E r \in DateRanges, sf \in BOOLEAN, df \in BOOLEAN : AggregateOrdersCall(r, sf, df)
  \/ \E m \in RangeCountMetrics, r \in DateRanges, sf \in BOOLEAN, df \in BOOLEAN :
       CountDocumentsInRangeCall(m, r, sf, df)
  \/ \E sf \in BOOLEAN, df \in BOOLEAN : GetOrdersSummaryCall(sf, df)
  \/ \E c \in {"products", "users"}, sf \in BOOLEAN, df \in BOOLEAN :
       GetCollectionCountCall(c, sf, df)
  \/ Return

SpecAggregate == InitAggregate /\ [][NextAggregate]_vars

\* ---- the queries of an aggregate-or-scan operation, one at a time
\* The server aggregates an operation issues in its try block: one, or for
\* getOrdersSummary three under one Promise.all.
ServerQueriesOf(op) ==
  IF op = "getOrdersSummary" THEN <<"total", "pending", "revenue">>
  ELSE <<"server">>

FallbackInvocations ==
  {[op |-> "aggregateOrders", metric |-> Absent, path |-> "orders", range |-> r] :
     r \in DateRanges}
    \cup {[op |-> "countDocumentsInRange", metric |-> m,
           path |-> RangeCountArgs(m).collectionPath, range |-> r] :
            m \in RangeCountMetrics, r \in DateRanges}
    \cup {[op |-> "getCollectionCount", metric |-> Absent, path |-> c,
           range |-> [start |-> 0, end |-> 0]] : c \in {"products", "users"}}
    \cup {[op |-> "getOrdersSummary", metric |-> Absent, path |-> "orders",
           range |-> [start |-> 0, end |-> 0]]}

\* What the operation returns when its server attempt and its scan end as
\* given.
FallbackResult(c, serverFails, scanFails) ==
  CASE c.op = "aggregateOrders" -> aggregateOrders(c.range, serverFails, scanFails)
    [] c.op = "countDocumentsInRange" ->
         LET a == RangeCountArgs(c.metric) IN
         countDocumentsInRange(a.collectionPath, a.timestampField, c.range,
                               a.options, serverFails, scanFails)
    [] c.op = "getCollectionCount" -> getCollectionCount(c.path, serverFails, scanFails)
    [] OTHER -> getOrdersSummary(serverFails, scanFails)

\* The operation is called and issues the scan together with its server
\* aggregates.
AggregateStart_ScanAtOnce(inv) ==
  /\ call.op = "none"
  /\ call' = [op |-> inv.op, metric |-> inv.metric, path |-> inv.path,
              range |-> inv.range, pc |-> "scan",
              issued |-> ServerQueriesOf(inv.op) \o <<"scan">>,
              outcomes |-> [q \in {ServerQueriesOf(inv.op)[i] :
                                     i \in 1..Len(ServerQueriesOf(inv.op))} |-> "pending"],
              result |-> Rejected]
  /\ UNCHANGED <<currencyVars, storeVars, logger>>

\* The operation is called: it issues its server aggregates and awaits them.
AggregateStart(inv) ==
  /\ call.op = "none"
  /\ call' = [op |-> inv.op, metric |-> inv.metric, path |-> inv.path,
              range |-> inv.range, pc |-> "server",
              issued |-> ServerQueriesOf(inv.op),
              outcomes |-> [q \in {ServerQueriesOf(inv.op)[i] :
                                     i \in 1..Len(ServerQueriesOf(inv.op))} |-> "pending"],
              result |-> Rejected]
  /\ UNCHANGED <<currencyVars, storeVars, logger>>

\* A server aggregate settles. While the operation awaits them, the first
\* failure enters the catch block, which issues the scan, and the last success
\* returns the server values; a settlement after that changes nothing.
ServerAggregateSettles(q, ok) ==
  /\ call.op \in {"aggregateOrders", "countDocumentsInRange", "getCollectionCount",
                  "getOrdersSummary"}
  /\ "outcomes" \in DOMAIN call
  /\ q \in DOMAIN call.outcomes
  /\ call.outcomes[q] = "pending"
  /\ LET outcomes == [call.outcomes EXCEPT ![q] = IF ok THEN "ok" ELSE "failed"] IN
     call' = IF call.pc # "server" THEN [call EXCEPT !.outcomes = outcomes]
             ELSE IF ~ok
               THEN [call EXCEPT !.outcomes = outcomes, !.pc = "scan",
                                 !.issued = @ \o <<"scan">>]
             ELSE IF \A x \in DOMAIN outcomes : outcomes[x] = "ok"
               THEN [call EXCEPT !.outcomes = outcomes, !.pc = "returned",
                                 !.result = FallbackResult(call, FALSE, FALSE)]
             ELSE [call EXCEPT !.outcomes = outcomes]
  /\ UNCHANGED <<currencyVars, storeVars, logger>>

\* The fetch of the scan settles: the operation returns what it computes from
\* the documents, or is rejected.
FallbackScanSettles(ok) ==
  /\ call.op \in {"aggregateOrders", "countDocumentsInRange", "getCollectionCount",
                  "getOrdersSummary"}
  /\ "outcomes" \in DOMAIN call
  /\ call.pc = "scan"
  /\ call' = [call EXCEPT !.pc = "returned",
                          !.result = FallbackResult(call, TRUE, ~ok)]
  /\ UNCHANGED <<currencyVars, storeVars, logger>>

\* The caller has taken the outcome.
AggregateReturn ==
  /\ "outcomes" \in DOMAIN call
  /\ call.pc = "returned"
  /\ call' = NoCall
  /\ UNCHANGED <<currencyVars, storeVars, logger>>

\* A store with no records, with two orders, or with a product.
FallbackStores ==
  {EmptyStore,
   [EmptyStore EXCEPT !["orders"] =
      WithIds(<<PlainOrder, [PlainOrder EXCEPT !.status = "pending"]>>)],
   [EmptyStore EXCEPT !["products"] =
      WithIds(<<Doc(Ts(1), NoField, NoField, Absent, NoField, Absent)>>)]}

InitFallback ==
  /\ InitCurrency
  /\ now = MaxTime
  /\ store \in FallbackStores
  /\ call = NoCall
  /\ logger = NewLogger

NextFallback ==
  \/ \E inv \in FallbackInvocations : AggregateStart(inv)
  \/ \E q \in {"server", "total", "pending", "revenue"}, ok \in BOOLEAN :
       ServerAggregateSettles(q, ok)
  \/ \E ok \in BOOLEAN : FallbackScanSettles(ok)
  \/ AggregateReturn

SpecFallback == InitFallback /\ [][NextFallback]_vars

\* ---------------------------------------------------------- activity feed
\* getRecentActivity asks every kind for its 10 most recent records.
ActivityLimit == 10

ActivityKinds == <<"order", "product", "gallery", "user">>

\* The queries of one getRecentActivity call: per kind the primary query and
\* the query issued when the primary one fails.
ActivityQueries == {<<k, q>> : k \in {"order", "product", "gallery", "user"},
                               q \in {"primary", "secondary"}}

\* item ?? other
Coalesce(value, other) == IF value.k # "absent" THEN value ELSE other

ActivityItem(type, d, timestamp) ==
  [id |-> d.id, type |-> type, timestamp |-> timestamp, entityId |-> d.id]

safeQuery(collectionPath, orderField, fallbackOrderField, limitCount, primaryFails, secondaryFails) ==
  IF ~primaryFails
    THEN Ok(Limit(OrderByDesc(store[collectionPath], orderField), limitCount))
  ELSE IF ~secondaryFails
    THEN Ok(Limit(OrderByDesc(store[collectionPath], fallbackOrderField), limitCount))
  ELSE Rejected

\* The recent-activity fetchers map the documents of their snapshot; the
\* description text of an item is not modelled.
getRecentOrdersActivity(limitCount, currencyCode, primaryFails, secondaryFails) ==
  LET snapshot == safeQuery("orders", "updatedAt", "createdAt", limitCount,
                            primaryFails, secondaryFails)
  IN IF ~snapshot.ok THEN Rejected
     ELSE Ok([i \in 1..Len(snapshot.value) |->
            LET d == snapshot.value[i] IN
            ActivityItem("order", d,
                         extractTimestamp(Coalesce(d.updatedAt, d.createdAt)))])

getRecentProductsActivity(limitCount, primaryFails, secondaryFails) ==
  LET snapshot == safeQuery("products", "updatedAt", "createdAt", limitCount,
                            primaryFails, secondaryFails)
  IN IF ~snapshot.ok THEN Rejected
     ELSE Ok([i \in 1..Len(snapshot.value) |->
            LET d == snapshot.value[i] IN
            ActivityItem("product", d,
                         extractTimestamp(Coalesce(d.updatedAt, d.createdAt)))])

getRecentGalleryActivity(limitCount, primaryFails, secondaryFails) ==
  LET GalleryItem(d) == ActivityItem("gallery", d, extractTimestamp(d.uploadedAt))
  IN IF ~primaryFails
       THEN LET docs == Limit(OrderByDesc(
                          SelectSeq(store["media"],
                                    LAMBDA d : d.relatedEntityType = "gallery"),
                          "uploadedAt"), limitCount)
            IN Ok([i \in 1..Len(docs) |-> GalleryItem(docs[i])])
     ELSE IF ~secondaryFails
       THEN LET docs == Limit(OrderByDesc(store["media"], "uploadedAt"),
                              limitCount * 2)
                kept == SelectSeq(docs, LAMBDA d : d.relatedEntityType = "gallery")
            IN Ok(Limit([i \in 1..Len(kept) |-> GalleryItem(kept[i])], limitCount))
     ELSE Rejected

getRecentUsersActivity(limitCount, primaryFails, secondaryFails) ==
  LET snapshot == safeQuery("users", "createdAt", "createdAt", limitCount,
                            primaryFails, secondaryFails)
  IN IF ~snapshot.ok THEN Rejected
     ELSE Ok([i \in 1..Len(snapshot.value) |->
            LET d == snapshot.value[i] IN
            ActivityItem("user", d, extractTimestamp(d.createdAt))])

\* Array.prototype.sort((a, b) => b.timestamp - a.timestamp): stable.
RECURSIVE InsertByTimestampDesc(_, _)
InsertByTimestampDesc(x, sorted) ==
  IF sorted = <<>> THEN <<x>>
  ELSE IF Head(sorted).timestamp >= x.timestamp
    THEN <<Head(sorted)>> \o InsertByTimestampDesc(x, Tail(sorted))
  ELSE <<x>> \o sorted

RECURSIVE SortByTimestampDesc(_)
SortByTimestampDesc(items) ==
  IF items = <<>> THEN <<>>
  ELSE InsertByTimestampDesc(items[Len(items)],
                             SortByTimestampDesc(SubSeq(items, 1, Len(items) - 1)))

\* Array.prototype.slice(0, end)
SliceFromStart(items, end) ==
  LET n == IF end < 0 THEN Len(items) + end ELSE end
      m == IF n < 0 THEN 0 ELSE IF n > Len(items) THEN Len(items) ELSE n
  IN SubSeq(items, 1, m)

\* The per-kind results of one getRecentActivity call; `failing` is the set
\* of its queries that fail.
ActivityEvents(currencyCode, failing) ==
  [k \in {"order", "product", "gallery", "user"} |->
     LET pf == <<k, "primary">> \in failing
         sf == <<k, "secondary">> \in failing
     IN CASE k = "order" -> getRecentOrdersActivity(ActivityLimit, currencyCode, pf, sf)
          [] k = "product" -> getRecentProductsActivity(ActivityLimit, pf, sf)
          [] k = "gallery" -> getRecentGalleryActivity(ActivityLimit, pf, sf)
          [] OTHER -> getRecentUsersActivity(ActivityLimit, pf, sf)]

MergeActivity_NoSlice(events, maxItems) ==
  SortByTimestampDesc(events["order"].value \o events["product"].value
                        \o events["gallery"].value \o events["user"].value)

\* [...orderEvents, ...productEvents, ...galleryEvents, ...userEvents]
\*   .sort(...).slice(0, maxItems)
MergeActivity(events, maxItems) ==
  SliceFromStart(
    SortByTimestampDesc(events["order"].value \o events["product"].value
                          \o events["gallery"].value \o events["user"].value),
    maxItems)

\* Promise.all over the four fetchers: one rejection rejects the call.
getRecentActivity(currencyCode, maxItems, failing) ==
  LET events == ActivityEvents(currencyCode, failing)
  IN IF \E k \in DOMAIN events : ~events[k].ok THEN Rejected
     ELSE Ok(MergeActivity(events, maxItems))

GetRecentActivityCall(maxItems, failing) ==
  /\ call.op = "none"
  /\ call' = [op |-> "getRecentActivity", maxItems |-> maxItems,
              failing |-> failing,
              result |-> getRecentActivity("USD", maxItems, failing)]
  /\ UNCHANGED <<currencyVars, storeVars, logger>>

\* ---- the record stores SpecActivity starts from: up to MaxFeedDocs
\* documents over the four collections, or one collection larger than the
\* fetch limit.
FeedShapes ==
  {<<"orders", Doc(Ts(1), Ts(t), NoField, "pending", Num(500), Absent)>> :
     t \in 1..MaxTime}
  \cup {<<"orders", Doc(Ts(MaxTime), NoField, NoField, "pending", Num(500), Absent)>>}
  \cup {<<"products", Doc(Ts(1), Ts(t), NoField, Absent, NoField, Absent)>> :
          t \in 1..MaxTime}
  \cup {<<"media", Doc(NoField, NoField, Ts(t), Absent, NoField, "gallery")>> :
          t \in 1..MaxTime}
  \cup {<<"media", Doc(NoField, NoField, Ts(MaxTime), Absent, NoField, "product")>>}
  \cup {<<"users", Doc(Ts(t), NoField, NoField, Absent, NoField, Absent)>> :
          t \in 1..MaxTime}

\* The store that holds the documents of `placed`, a sequence of
\* <<collection, document>> pairs.
StoreOf(placed) ==
  [c \in Collections |->
     WithIds(LET mine == SelectSeq(placed, LAMBDA x : x[1] = c)
             IN [i \in 1..Len(mine) |-> mine[i][2]])]

FeedStores == {StoreOf(placed) : placed \in CollectionsUpTo(FeedShapes, MaxFeedDocs)}

\* More users than one fetch returns; more media than the gallery fallback
\* fetches, every other one a gallery image.
ManyUsersStore ==
  [EmptyStore EXCEPT !["users"] =
     WithIds([i \in 1..(ActivityLimit + 1) |->
                Doc(Ts(1 + (i % MaxTime)), NoField, NoField, Absent, NoField, Absent)])]
ManyMediaStore ==
  [EmptyStore EXCEPT !["media"] =
     WithIds([i \in 1..(2 * ActivityLimit + 2) |->
                Doc(NoField, NoField, Ts(1 + (i % MaxTime)), Absent, NoField,
                    IF i % 2 = 0 THEN "gallery" ELSE "product")])]

\* The failures of the queries of one call: none, the primary query of one
\* kind, or both queries of one kind.
FeedFailures ==
  {{}} \cup {{<<k, "primary">>} : k \in {"order", "product", "gallery", "user"}}
       \cup {{<<k, "primary">>, <<k, "secondary">>} :
               k \in {"order", "product", "gallery", "user"}}

InitActivity ==
  /\ InitCurrency
  /\ now = MaxTime
  /\ store \in FeedStores \cup {ManyUsersStore, ManyMediaStore}
  /\ call = NoCall
  /\ logger = NewLogger

NextActivity ==
  \/ \E n \in 0..MaxItems, f \in FeedFailures : GetRecentActivityCall(n, f)
  \/ Return

SpecActivity == InitActivity /\ [][NextActivity]_vars

\* ---------------------------------------------------------------- calendar
\* Instants are ticks of a calendar without time zones: hours and days have
\* a fixed length, months alternate between DaysPerMonth and DaysPerMonth + 1
\* days, every year has the same months, and tick 0 is the first instant of
\* the year 2000.
TicksPerDay == TicksPerHour * HoursPerDay

\* The length of month `month` (from 0) in days.
DaysInMonth(month) == DaysPerMonth + (month % 2)

\* The days of a year before its month `month`.
RECURSIVE DaysBeforeMonth(_)
DaysBeforeMonth(month) ==
  IF month = 0 THEN 0 ELSE DaysBeforeMonth(month - 1) + DaysInMonth(month - 1)

DaysPerYear == DaysBeforeMonth(MonthsPerYear)
TicksPerYear == DaysPerYear * TicksPerDay

\* The day of the year (from 0) of instant t.
DayOfYear(t) == (t % TicksPerYear) \div TicksPerDay

\* Date.prototype.getFullYear, getMonth (from 0), getDate (from 1), getHours.
getFullYear(t) == 2000 + (t \div TicksPerYear)
getMonth(t) ==
  CHOOSE m \in 0..(MonthsPerYear - 1) :
    DaysBeforeMonth(m) <= DayOfYear(t) /\ DayOfYear(t) < DaysBeforeMonth(m + 1)
getDate(t) == 1 + DayOfYear(t) - DaysBeforeMonth(getMonth(t))
getHours(t) == (t % TicksPerDay) \div TicksPerHour

\* new Date(year, month, day, hour): a month outside 0..MonthsPerYear-1 and a
\* day outside the month carry over into the neighbouring years and months.
MakeDate(year, month, day, hour) ==
  (year - 2000 + (month \div MonthsPerYear)) * TicksPerYear
    + (DaysBeforeMonth(month % MonthsPerYear) + day - 1) * TicksPerDay
    + hour * TicksPerHour

\* The Date setters getPeriodBounds uses, each on the instant it is applied
\* to there (the first instant of a day, and for the month and year
\* arithmetic the first day of a month).
\* setHours(0, 0, 0, 0)
StartOfDay(t) == t - (t % TicksPerDay)
\* setDate(getDate() + n)
AddDays(t, n) == MakeDate(getFullYear(t), getMonth(t), getDate(t) + n, getHours(t))
\* setDate(1)
StartOfMonth(t) == MakeDate(getFullYear(t), getMonth(t), 1, getHours(t))
\* setMonth(getMonth() + n)
AddMonths(t, n) == MakeDate(getFullYear(t), getMonth(t) + n, getDate(t), getHours(t))
\* setMonth(0, 1)
StartOfYear(t) == MakeDate(getFullYear(t), 0, 1, getHours(t))
\* setFullYear(getFullYear() + n)
AddYears(t, n) == MakeDate(getFullYear(t) + n, getMonth(t), getDate(t), getHours(t))

Periods == {"today", "week", "month", "year"}

\* getPeriodBounds with each previous range running up to now.
getPeriodBounds_PreviousToNow(period) ==
  LET start == StartOfDay(now) IN
  [current |-> [start |-> start, end |-> now],
   previous |-> [start |-> AddDays(start, -1), end |-> now]]

\* getPeriodBounds with months and years taken as a fixed number of days.
getPeriodBounds_FixedLengths(period) ==
  LET today == StartOfDay(now)
      start == CASE period = "week" -> AddDays(today, -6)
                 [] period = "month" -> StartOfMonth(today)
                 [] period = "year" -> StartOfYear(today)
                 [] OTHER -> today
      back == CASE period = "today" -> 1
                [] period = "week" -> 7
                [] period = "month" -> DaysPerMonth
                [] period = "year" -> DaysPerMonth * MonthsPerYear
                [] OTHER -> 0
  IN [current |-> [start |-> start, end |-> now],
      previous |-> [start |-> AddDays(start, -back), end |-> start]]

getPeriodBounds(period) ==
  LET endCurrent == now
      startCurrent == StartOfDay(now)
  IN CASE period = "today" ->
            [current |-> [start |-> startCurrent, end |-> endCurrent],
             previous |-> [start |-> AddDays(startCurrent, -1), end |-> startCurrent]]
       [] period = "week" ->
            LET start == AddDays(startCurrent, -6) IN
            [current |-> [start |-> start, end |-> endCurrent],
             previous |-> [start |-> AddDays(start, -7), end |-> start]]
       [] period = "month" ->
            LET start == StartOfMonth(startCurrent) IN
            [current |-> [start |-> start, end |-> endCurrent],
             previous |-> [start |-> AddMonths(start, -1), end |-> start]]
       [] period = "year" ->
            LET start == StartOfYear(startCurrent) IN
            [current |-> [start |-> start, end |-> endCurrent],
             previous |-> [start |-> AddYears(start, -1), end |-> start]]
       [] OTHER ->
            [current |-> [start |-> startCurrent, end |-> endCurrent],
             previous |-> [start |-> startCurrent, end |-> startCurrent]]

\* ---- getPeriodBounds at every instant of two years
GetPeriodBoundsCall(period) ==
  /\ call.op = "none"
  /\ call' = [op |-> "getPeriodBounds", period |-> period,
              result |-> getPeriodBounds(period)]
  /\ UNCHANGED <<currencyVars, storeVars, logger>>

InitPeriod ==
  /\ InitCurrency
  /\ store = EmptyStore
  /\ now \in 0..(2 * TicksPerYear - 1)
  /\ call = NoCall
  /\ logger = NewLogger

NextPeriod ==
  \/ \E period \in Periods \cup {"other"} : GetPeriodBoundsCall(period)
  \/ Return

SpecPeriod == InitPeriod /\ [][NextPeriod]_vars

\* ------------------------------------------------------ metric comparison
\* Math.round(n / d) for d # 0 (halves round up).
RoundRatio(n, d) == IF d > 0 THEN RoundDiv(n, d) ELSE RoundDiv(-n, -d)

\* A change in tenths of a percent, or null.
NullChange == [isNull |-> TRUE, tenths |-> 0]
Change(tenths) == [isNull |-> FALSE, tenths |-> tenths]

\* A JavaScript number: a finite value, an infinity or NaN. Finite values are
\* exact here; rounding errors and overflow of the arithmetic are not modelled.
Finite(n) == [k |-> "fin", v |-> n]
PosInfinity == [k |-> "inf", v |-> 1]
NegInfinity == [k |-> "inf", v |-> -1]
NaN == [k |-> "nan", v |-> 0]

Sign(n) == IF n < 0 THEN -1 ELSE 1

\* a - b
JsSubtract(a, b) ==
  CASE a.k = "nan" \/ b.k = "nan" -> NaN
    [] a.k = "inf" /\ b.k = "inf" -> IF a.v = b.v THEN NaN ELSE a
    [] a.k = "inf" -> a
    [] b.k = "inf" -> [k |-> "inf", v |-> -b.v]
    [] OTHER -> Finite(a.v - b.v)

\* (a / b) * 100 for b other than zero: a special value, or the fraction n / d.
JsPercentOf(a, b) ==
  CASE a.k = "nan" \/ b.k = "nan" -> [k |-> "nan", n |-> 0, d |-> 1]
    [] a.k = "inf" /\ b.k = "inf" -> [k |-> "nan", n |-> 0, d |-> 1]
    [] a.k = "inf" -> [k |-> "inf", n |-> a.v * Sign(b.v), d |-> 1]
    [] b.k = "inf" -> [k |-> "fin", n |-> 0, d |-> 1]
    [] OTHER -> [k |-> "fin", n |-> a.v * 100, d |-> b.v]

\* calculateChange without the null for growth from zero.
calculateChange_NeverNull(current, previous) ==
  IF previous = Finite(0) THEN Change(0)
  ELSE LET change == JsPercentOf(JsSubtract(current, previous), previous) IN
       IF change.k # "fin" THEN NullChange
       ELSE Change(RoundRatio(change.n * 10, change.d))

\* calculateChange rounding to whole percents.
calculateChange_WholePercent(current, previous) ==
  IF previous = Finite(0)
    THEN IF current = Finite(0) THEN Change(0) ELSE NullChange
  ELSE LET change == JsPercentOf(JsSubtract(current, previous), previous) IN
       IF change.k # "fin" THEN NullChange
       ELSE Change(10 * RoundRatio(change.n, change.d))

calculateChange(current, previous) ==
  IF previous = Finite(0)
    THEN IF current = Finite(0) THEN Change(0) ELSE NullChange
  ELSE LET change == JsPercentOf(JsSubtract(current, previous), previous) IN
       IF change.k # "fin" THEN NullChange
       ELSE Change(RoundRatio(change.n * 10, change.d))

\* ---- calculateChange on pairs of numbers
\* The finite values tried: the small ones of either sign and those of the
\* documented examples.
ChangeAmounts == (-MaxAmount..MaxAmount) \cup {50, 100, 150}
JsNumbers == {Finite(n) : n \in ChangeAmounts} \cup {PosInfinity, NegInfinity, NaN}

CalculateChangeCall(current, previous) ==
  /\ call.op = "none"
  /\ call' = [op |-> "calculateChange", current |-> current, previous |-> previous,
              result |-> calculateChange(current, previous)]
  /\ UNCHANGED <<currencyVars, storeVars, logger>>

InitChange ==
  /\ InitCurrency
  /\ store = EmptyStore
  /\ now = MaxTime
  /\ call = NoCall
  /\ logger = NewLogger

NextChange ==
  \/ \E current \in JsNumbers, previous \in JsNumbers :
       CalculateChangeCall(current, previous)
  \/ Return

SpecChange == InitChange /\ [][NextChange]_vars

\* -------------------------------------------------------------- snapshots
\* try { body } catch { handler }: a rejection of the body is caught.
TryCatch(body, handler) == IF body.ok THEN body ELSE Ok(handler)

\* The queries the computations of getDashboardStats issue, besides those of
\* the activity feed.
DashboardQueries ==
  {<<c, q>> : c \in {"totalProducts", "totalGalleryImages", "totalUsers",
                     "pendingReviews"},
              q \in {"server", "scan"}}
    \cup {<<"ordersSummary", q>> : q \in {"total", "pending", "revenue", "scan"}}

DefaultDashboardSnapshot ==
  [totalProducts |-> 0, totalOrders |-> 0, totalGalleryImages |-> 0,
   totalUsers |-> 0, pendingOrders |-> 0, pendingReviews |-> 0,
   totalRevenue |-> 0, currencyCode |-> "USD", recentActivity |-> <<>>]

\* The body of the try block of getDashboardStats, after the currency code.
DashboardBody(currencyCode, failing) ==
  LET Fails(c, q) == <<c, q>> \in failing
      totalProducts == getCollectionCount("products",
                         Fails("totalProducts", "server"), Fails("totalProducts", "scan"))
      ordersSummary == getOrdersSummary(
                         \E q \in {"total", "pending", "revenue"} : Fails("ordersSummary", q),
                         Fails("ordersSummary", "scan"))
      totalGalleryImages == getGalleryImagesCount(
                         Fails("totalGalleryImages", "server"),
                         Fails("totalGalleryImages", "scan"))
      totalUsers == getCollectionCount("users",
                         Fails("totalUsers", "server"), Fails("totalUsers", "scan"))
      pendingReviews == getPendingReviewsCount(
                         Fails("pendingReviews", "server"), Fails("pendingReviews", "scan"))
      recentActivity == getRecentActivity(currencyCode, 8, failing \cap ActivityQueries)
  IN IF /\ totalProducts.ok /\ ordersSummary.ok /\ totalGalleryImages.ok
        /\ totalUsers.ok /\ pendingReviews.ok /\ recentActivity.ok
       THEN Ok([totalProducts |-> totalProducts.value,
                totalOrders |-> ordersSummary.value.total,
                totalGalleryImages |-> totalGalleryImages.value,
                totalUsers |-> totalUsers.value,
                pendingOrders |-> ordersSummary.value.pending,
                pendingReviews |-> pendingReviews.value,
                totalRevenue |-> ordersSummary.value.revenue,
                currencyCode |-> currencyCode,
                recentActivity |-> recentActivity.value])
       ELSE Rejected

getDashboardStats_NoCatch(currencyCode, failing) ==
  DashboardBody(currencyCode, failing)

getDashboardStats(currencyCode, failing) ==
  TryCatch(DashboardBody(currencyCode, failing), DefaultDashboardSnapshot)

\* The eight range aggregations of getAnalyticsSnapshot, each with its
\* server query and its fallback scan.
AnalyticsParts ==
  {"currentOrders", "previousOrders", "currentUsers", "previousUsers",
   "currentProducts", "previousProducts", "currentGallery", "previousGallery"}
AnalyticsQueries == {<<c, q>> : c \in AnalyticsParts, q \in {"server", "scan"}}

Metric(key, labelKey, format, current, previous) ==
  [key |-> key, labelKey |-> labelKey, format |-> format,
   currentValue |-> current, previousValue |-> previous,
   changePercentage |-> calculateChange(Finite(current), Finite(previous))]

\* The body of the try block of getAnalyticsSnapshot.
AnalyticsBody(period, currencyCode, bounds, failing) ==
  LET Fails(c, q) == <<c, q>> \in failing
      Orders(part, range) ==
        aggregateOrders(range, Fails(part, "server"), Fails(part, "scan"))
      Count(part, metric, range) ==
        LET a == RangeCountArgs(metric) IN
        countDocumentsInRange(a.collectionPath, a.timestampField, range, a.options,
                              Fails(part, "server"), Fails(part, "scan"))
      currentOrders == Orders("currentOrders", bounds.current)
      previousOrders == Orders("previousOrders", bounds.previous)
      currentUsers == Count("currentUsers", "newCustomers", bounds.current)
      previousUsers == Count("previousUsers", "newCustomers", bounds.previous)
      currentProducts == Count("currentProducts", "productsUpdated", bounds.current)
      previousProducts == Count("previousProducts", "productsUpdated", bounds.previous)
      currentGallery == Count("currentGallery", "galleryUploads", bounds.current)
      previousGallery == Count("previousGallery", "galleryUploads", bounds.previous)
      recentActivity == getRecentActivity(currencyCode, 10, failing \cap ActivityQueries)
  IN IF /\ currentOrders.ok /\ previousOrders.ok /\ currentUsers.ok /\ previousUsers.ok
        /\ currentProducts.ok /\ previousProducts.ok
        /\ currentGallery.ok /\ previousGallery.ok /\ recentActivity.ok
       THEN Ok([period |-> period,
                currencyCode |-> currencyCode,
                metrics |-> <<
                  Metric("totalOrders", "admin.analytics.metrics.total_orders", "number",
                         currentOrders.value.count, previousOrders.value.count),
                  Metric("revenue", "admin.analytics.metrics.revenue", "currency",
                         currentOrders.value.revenue, previousOrders.value.revenue),
                  Metric("averageOrderValue",
                         "admin.analytics.metrics.average_order_value", "currency",
                         currentOrders.value.average, previousOrders.value.average),
                  Metric("newCustomers", "admin.analytics.metrics.new_customers", "number",
                         currentUsers.value, previousUsers.value),
                  Metric("productsUpdated", "admin.analytics.metrics.products_updated",
                         "number", currentProducts.value, previousProducts.value),
                  Metric("galleryUploads", "admin.analytics.metrics.gallery_uploads",
                         "number", currentGallery.value, previousGallery.value)>>,
                recentActivity |-> recentActivity.value])
       ELSE Rejected

EmptyAnalyticsSnapshot(period, currencyCode) ==
  [period |-> period, currencyCode |-> currencyCode,
   metrics |-> <<>>, recentActivity |-> <<>>]

getAnalyticsSnapshot_NoCatch(period, currencyCode, bounds, failing) ==
  AnalyticsBody(period, currencyCode, bounds, failing)

\* getAnalyticsSnapshot with bounds computed anew when its queries run.
getAnalyticsSnapshot_FreshBounds(period, currencyCode, bounds, failing) ==
  TryCatch(AnalyticsBody(period, currencyCode, getPeriodBounds(period), failing),
           EmptyAnalyticsSnapshot(period, currencyCode))

\* getAnalyticsSnapshot from the fan-out on; `bounds` is what getPeriodBounds
\* returned before it.
getAnalyticsSnapshot(period, currencyCode, bounds, failing) ==
  TryCatch(AnalyticsBody(period, currencyCode, bounds, failing),
           EmptyAnalyticsSnapshot(period, currencyCode))

getRecentActivityFeed(maxItems, currencyCode, failing) ==
  getRecentActivity(currencyCode, maxItems, failing)

\* ----------------------------------------------------------- revenue trend
\* A date key is the sequence of numbers its text spells: year, month (from
\* 1), day and hour, as far as the period's format goes.
getDateKey(date, period) ==
  LET year == getFullYear(date)
      month == getMonth(date) + 1
      day == getDate(date)
  IN CASE period = "today" -> <<year, month, day, getHours(date)>>
       [] period \in {"week", "month"} -> <<year, month, day>>
       [] period = "year" -> <<year, month>>
       [] OTHER -> <<year, month, day>>

\* parseDateKey reading every key as a day.
parseDateKey_IgnoringHour(key, period) ==
  MakeDate(key[1], key[2] - 1, IF Len(key) >= 3 THEN key[3] ELSE 1, 0)

parseDateKey(key, period) ==
  LET year == key[1]
      month == key[2] - 1
  IN CASE period = "today" -> MakeDate(year, month, key[3], key[4])
       [] period \in {"week", "month"} -> MakeDate(year, month, key[3], 0)
       [] period = "year" -> MakeDate(year, month, 1, 0)
       [] OTHER -> MakeDate(year, month, IF Len(key) >= 3 THEN key[3] ELSE 1, 0)

\* d comes before e in orderBy(field, 'asc'); ties go by document name.
BeforeAsc(d, e, field) == BeforeDesc(e, d, field)

RECURSIVE InsertAsc(_, _, _)
InsertAsc(d, sorted, field) ==
  IF sorted = <<>> THEN <<d>>
  ELSE IF BeforeAsc(d, Head(sorted), field) THEN <<d>> \o sorted
  ELSE <<Head(sorted)>> \o InsertAsc(d, Tail(sorted), field)

RECURSIVE SortAsc(_, _)
SortAsc(docs, field) ==
  IF docs = <<>> THEN <<>>
  ELSE InsertAsc(Head(docs), SortAsc(Tail(docs), field), field)

\* where('status', '==', 'completed') with the createdAt range filters.
CompletedOrdersIn(range) ==
  SelectSeq(store["orders"],
            LAMBDA d : d.status = "completed" /\ InRangeOnServer(d.createdAt, range))

\* `data[field] || 0` on a field that holds a number or is missing.
NumberOrZero(value) == IF value.k = "num" THEN value.v ELSE 0

\* Map.set(key, entry): an existing key keeps its place.
RECURSIVE MapSet(_, _)
MapSet(entries, entry) ==
  IF entries = <<>> THEN <<entry>>
  ELSE IF Head(entries).key = entry.key THEN <<entry>> \o Tail(entries)
  ELSE <<Head(entries)>> \o MapSet(Tail(entries), entry)

MapHas(entries, key) == \E i \in 1..Len(entries) : entries[i].key = key
MapGet(entries, key) ==
  entries[CHOOSE i \in 1..Len(entries) : entries[i].key = key]

\* A running total kept with `total + amount`: a number, or, once a string
\* amount has been added, the text that + has concatenated, as the sequence of
\* the numbers whose digits it holds.
Sum(n) == [k |-> "num", v |-> n, pieces |-> <<>>]
Text(pieces) == [k |-> "text", v |-> 0, pieces |-> pieces]

\* `data[field] || 0`: the field's value unless it is missing or zero.
ValueOrZero(value) ==
  IF value.k \in {"str", "nanstr"} \/ (value.k = "num" /\ value.v # 0)
    THEN value ELSE Num(0)

\* total + amount, for an amount that is a number or a numeric string.
JsAdd(total, amount) ==
  IF total.k = "num" /\ amount.k = "num" THEN Sum(total.v + amount.v)
  ELSE Text((IF total.k = "num" THEN <<total.v>> ELSE total.pieces)
              \o <<amount.v>>)

\* The snapshot.forEach of getRevenueTrend. Profit is kept in tenths of the
\* unit of the amounts, so that 0.7 * amount is a whole number; - and *
\* convert a numeric string to its number.
RECURSIVE GroupByDateKey(_, _, _)
GroupByDateKey(docs, period, grouped) ==
  IF docs = <<>> THEN grouped
  ELSE LET data == Head(docs)
           key == getDateKey(data.createdAt.v, period)
           current == IF MapHas(grouped, key) THEN MapGet(grouped, key)
                      ELSE [key |-> key, revenue |-> Sum(0), orders |-> 0,
                            profit |-> 0]
           amount == ValueOrZero(data.totalAmount)
           cost10 == IF NumberOrZero(data.costPrice) # 0
                       THEN 10 * data.costPrice.v ELSE 7 * amount.v
       IN GroupByDateKey(Tail(docs), period,
            MapSet(grouped, [key |-> key,
                             revenue |-> JsAdd(current.revenue, amount),
                             orders |-> current.orders + 1,
                             profit |-> current.profit + (10 * amount.v - cost10)]))

\* Array.prototype.sort((a, b) => a.date - b.date), which is stable.
RECURSIVE InsertByDateAsc(_, _)
InsertByDateAsc(x, sorted) ==
  IF sorted = <<>> THEN <<x>>
  ELSE IF x.date <= Head(sorted).date THEN <<x>> \o sorted
  ELSE <<Head(sorted)>> \o InsertByDateAsc(x, Tail(sorted))

RECURSIVE SortByDateAsc(_)
SortByDateAsc(s) ==
  IF s = <<>> THEN <<>>
  ELSE InsertByDateAsc(s[1], SortByDateAsc(SubSeq(s, 2, Len(s))))

RevenueTrendBody(period, range, queryFails) ==
  IF queryFails THEN Rejected
  ELSE LET snapshot == SortAsc(CompletedOrdersIn(range), "createdAt")
           grouped == GroupByDateKey(snapshot, period, <<>>)
       IN Ok(SortByDateAsc([i \in 1..Len(grouped) |->
                [date |-> parseDateKey(grouped[i].key, period),
                 revenue |-> grouped[i].revenue,
                 orders |-> grouped[i].orders,
                 profit |-> grouped[i].profit]]))

getRevenueTrend(period, range, queryFails) ==
  TryCatch(RevenueTrendBody(period, range, queryFails), <<>>)

\* ---- getRevenueTrend over orders of the last days of a year
\* The last instant of the second year of the calendar.
TrendNow == 2 * TicksPerYear - 1

\* Instants before it: in its hour or the hour before, a day before, and a
\* month before.
TrendTimes ==
  {TrendNow - 1, TrendNow - TicksPerHour, TrendNow - TicksPerDay,
   TrendNow - DaysInMonth(MonthsPerYear - 1) * TicksPerDay}

TrendOrder(t, status, amount, cost) ==
  [Doc(Ts(t), NoField, NoField, status, NoField, Absent) EXCEPT
     !.totalAmount = amount, !.costPrice = cost]

\* Completed orders with an amount and no cost at each instant, and at the
\* day before: with a cost, with a cost of zero, with the amount as a numeric
\* string, without an amount, and not completed.
TrendShapes ==
  {TrendOrder(t, "completed", Num(500), NoField) : t \in TrendTimes}
    \cup {TrendOrder(TrendNow - TicksPerDay, "completed", Num(500), c) :
            c \in {Num(300), Num(0)}}
    \cup {TrendOrder(TrendNow - TicksPerDay, "completed", a, NoField) :
            a \in {Str(500), NoField}}
    \cup {TrendOrder(TrendNow - TicksPerDay, "pending", Num(500), NoField)}

\* Every sequence of up to MaxDocs such orders, and one order per instant,
\* latest first.
TrendStores ==
  {[EmptyStore EXCEPT !["orders"] = WithIds(o)] :
     o \in UNION {[1..n -> TrendShapes] : n \in 0..MaxDocs}}
    \cup {[EmptyStore EXCEPT !["orders"] =
             SortDesc(WithIds(SetToSeq({TrendOrder(t, "completed", Num(500), NoField) :
                                          t \in TrendTimes})), "createdAt")]}

GetRevenueTrendCall(period, queryFails) ==
  /\ call.op = "none"
  /\ call' = [op |-> "getRevenueTrend", period |-> period,
              range |-> getPeriodBounds(period).current,
              queryFails |-> queryFails,
              result |-> getRevenueTrend(period, getPeriodBounds(period).current,
                                         queryFails)]
  /\ UNCHANGED <<currencyVars, storeVars, logger>>

InitTrend ==
  /\ InitCurrency
  /\ now = TrendNow
  /\ store \in TrendStores
  /\ call = NoCall
  /\ logger = NewLogger

NextTrend ==
  \/ \E period \in Periods \cup {"other"}, queryFails \in BOOLEAN :
       GetRevenueTrendCall(period, queryFails)
  \/ Return

SpecTrend == InitTrend /\ [][NextTrend]_vars

\* ------------------------------------------------------------ top products
\* An order line; price is in the unit of the amounts.
Item(productId, productName, price, quantity) ==
  [productId |-> productId, productName |-> productName,
   price |-> price, quantity |-> quantity]

\* All the lines of the fetched orders, in forEach order.
RECURSIVE Flatten(_)
Flatten(docs) ==
  IF docs = <<>> THEN <<>> ELSE Head(docs).items \o Flatten(Tail(docs))

RECURSIVE GroupByProduct(_, _)
GroupByProduct(items, productStats) ==
  IF items = <<>> THEN productStats
  ELSE LET item == Head(items)
           id == IF item.productId = Absent THEN "" ELSE item.productId
           current == IF MapHas(productStats, id) THEN MapGet(productStats, id)
                      ELSE [key |-> id,
                            name |-> IF item.productName \in {Absent, ""}
                                       THEN "Unknown" ELSE item.productName,
                            revenue |-> 0, orders |-> 0, views |-> 0]
       IN GroupByProduct(Tail(items),
            MapSet(productStats,
                   [current EXCEPT !.revenue = @ + item.price * item.quantity,
                                   !.orders = @ + 1]))

\* Array.prototype.sort((a, b) => b.revenue - a.revenue), which is stable.
RECURSIVE InsertByRevenueDesc(_, _)
InsertByRevenueDesc(x, sorted) ==
  IF sorted = <<>> THEN <<x>>
  ELSE IF x.revenue >= Head(sorted).revenue THEN <<x>> \o sorted
  ELSE <<Head(sorted)>> \o InsertByRevenueDesc(x, Tail(sorted))

RECURSIVE SortByRevenueDesc(_)
SortByRevenueDesc(s) ==
  IF s = <<>> THEN <<>>
  ELSE InsertByRevenueDesc(s[1], SortByRevenueDesc(SubSeq(s, 2, Len(s))))

TopProductsBody(range, limit, queryFails) ==
  IF queryFails THEN Rejected
  ELSE LET productStats == GroupByProduct(Flatten(CompletedOrdersIn(range)), <<>>)
           results == [i \in 1..Len(productStats) |->
             LET stats == productStats[i] IN
             [productId |-> stats.key,
              productName |-> stats.name,
              revenue |-> stats.revenue,
              orders |-> stats.orders,
              views |-> IF stats.views # 0 THEN stats.views ELSE stats.orders * 10,
              conversionRate |-> IF stats.views > 0
                                   THEN (stats.orders * 100) \div stats.views
                                   ELSE 10]]
       IN Ok(SliceFromStart(SortByRevenueDesc(results), limit))

getTopProducts(range, limit, queryFails) ==
  TryCatch(TopProductsBody(range, limit, queryFails), <<>>)

\* ---------------------------------------------------- geographic breakdown
\* convertCountryNameToCode, on names written in ASCII.
convertCountryNameToCode(name) ==
  CASE name \in {"United States", "United States of America", "USA"} -> "US"
    [] name \in {"United Kingdom", "UK"} -> "GB"
    [] name \in {"Brazil", "Brasil"} -> "BR"
    [] name = "Mexico" -> "MX"
    [] name \in {"Germany", "Deutschland"} -> "DE"
    [] name = "France" -> "FR"
    [] name = "Spain" -> "ES"
    [] name \in {"Italy", "Italia"} -> "IT"
    [] name = "Canada" -> "CA"
    [] name = "Australia" -> "AU"
    [] name = "Japan" -> "JP"
    [] name = "China" -> "CN"
    [] name = "India" -> "IN"
    [] name = "Singapore" -> "SG"
    [] name = "Netherlands" -> "NL"
    [] name = "Argentina" -> "AR"
    [] name = "Chile" -> "CL"
    [] name = "Colombia" -> "CO"
    [] name = "Peru" -> "PE"
    [] OTHER -> name

\* a || b on strings: the first that is neither missing nor empty.
Truthy(s) == s \notin {Absent, ""}

\* extractCountryCode with a default of US for a record without a country.
extractCountryCode_DefaultUS(data) ==
  LET fields == <<data.countryCode, data.country,
                  data.shippingAddress.countryCode, data.shippingAddress.country,
                  data.billingAddress.countryCode, data.billingAddress.country,
                  data.customerCountry>>
      found == {i \in 1..Len(fields) : Truthy(fields[i])}
      country == IF found = {} THEN "US"
                 ELSE fields[CHOOSE i \in found : \A j \in found : i <= j]
      converted == IF Len(country) > 2
                     THEN convertCountryNameToCode(country) ELSE country
  IN ToUpperCase(converted)

extractCountryCode(data) ==
  LET fields == <<data.countryCode, data.country,
                  data.shippingAddress.countryCode, data.shippingAddress.country,
                  data.billingAddress.countryCode, data.billingAddress.country,
                  data.customerCountry>>
      found == {i \in 1..Len(fields) : Truthy(fields[i])}
      country == IF found = {} THEN Absent
                 ELSE fields[CHOOSE i \in found : \A j \in found : i <= j]
      converted == IF Truthy(country) /\ Len(country) > 2
                     THEN convertCountryNameToCode(country) ELSE country
  IN IF Truthy(converted) THEN ToUpperCase(converted) ELSE ""

CountryNames ==
  ("BR" :> "Brazil") @@ ("MX" :> "Mexico") @@ ("AR" :> "Argentina") @@
    ("CL" :> "Chile") @@ ("CO" :> "Colombia") @@ ("PE" :> "Peru") @@
    ("VE" :> "Venezuela") @@ ("EC" :> "Ecuador") @@ ("GB" :> "United Kingdom") @@
    ("DE" :> "Germany") @@ ("FR" :> "France") @@ ("ES" :> "Spain") @@
    ("IT" :> "Italy") @@ ("NL" :> "Netherlands") @@ ("SE" :> "Sweden") @@
    ("NO" :> "Norway") @@ ("PL" :> "Poland") @@ ("CH" :> "Switzerland") @@
    ("CN" :> "China") @@ ("JP" :> "Japan") @@ ("KR" :> "South Korea") @@
    ("IN" :> "India") @@ ("AU" :> "Australia") @@ ("SG" :> "Singapore") @@
    ("TH" :> "Thailand") @@ ("VN" :> "Vietnam") @@ ("ID" :> "Indonesia") @@
    ("MY" :> "Malaysia") @@ ("PH" :> "Philippines") @@
    ("US" :> "United States") @@ ("CA" :> "Canada") @@ ("AE" :> "UAE") @@
    ("SA" :> "Saudi Arabia") @@ ("IL" :> "Israel") @@ ("TR" :> "Turkey")

getCountryName(code) ==
  IF code \in DOMAIN CountryNames THEN CountryNames[code] ELSE code

latinAmerica == {"BR", "MX", "AR", "CL", "CO", "PE", "VE", "EC", "UY", "PY", "BO"}
europe == {"GB", "DE", "FR", "ES", "IT", "NL", "SE", "NO", "PL", "CH", "AT", "BE",
           "DK", "FI", "IE", "PT"}
apac == {"CN", "JP", "KR", "IN", "AU", "SG", "TH", "VN", "ID", "MY", "PH", "NZ",
         "HK", "TW"}
northAmerica == {"US", "CA"}
mena == {"AE", "SA", "IL", "TR", "EG", "QA", "KW", "OM", "BH", "JO", "LB"}

\* getRegion without the test of the North America list.
getRegion_WithoutNorthAmerica(code) ==
  IF code \in latinAmerica THEN "LATAM"
  ELSE IF code \in europe THEN "EU"
  ELSE IF code \in apac THEN "APAC"
  ELSE IF code \in mena THEN "MENA"
  ELSE "OTHER"

getRegion(code) ==
  IF code \in latinAmerica THEN "LATAM"
  ELSE IF code \in europe THEN "EU"
  ELSE IF code \in apac THEN "APAC"
  ELSE IF code \in northAmerica THEN "NA"
  ELSE IF code \in mena THEN "MENA"
  ELSE "OTHER"

\* ---- getRegion and getCountryName on the codes of the tables and on others
RegionCodes ==
  latinAmerica \cup europe \cup apac \cup northAmerica \cup mena
    \cup DOMAIN CountryNames \cup {"ZZ", "NARNIA", "br", ""}

GetRegionCall(code) ==
  /\ call.op = "none"
  /\ call' = [op |-> "getRegion", code |-> code, result |-> getRegion(code)]
  /\ UNCHANGED <<currencyVars, storeVars, logger>>

GetCountryNameCall(code) ==
  /\ call.op = "none"
  /\ call' = [op |-> "getCountryName", code |-> code,
              result |-> getCountryName(code)]
  /\ UNCHANGED <<currencyVars, storeVars, logger>>

InitRegion ==
  /\ InitCurrency
  /\ now = 0
  /\ store = EmptyStore
  /\ call = NoCall
  /\ logger = NewLogger

NextRegion ==
  \/ \E code \in RegionCodes : GetRegionCall(code)
  \/ \E code \in RegionCodes : GetCountryNameCall(code)
  \/ Return

SpecRegion == InitRegion /\ [][NextRegion]_vars

\* The createdAt range filters of the orders and quotes queries.
DocsIn(collectionPath, range) ==
  SelectSeq(store[collectionPath], LAMBDA d : InRangeOnServer(d.createdAt, range))

GeoEntry(countryCode) ==
  [key |-> countryCode, country |-> getCountryName(countryCode),
   countryCode |-> countryCode, region |-> getRegion(countryCode),
   quotes |-> 0, conversions |-> 0, revenue |-> Sum(0)]

\* quotesSnapshot.docs.forEach
RECURSIVE AddQuotes(_, _)
AddQuotes(docs, geoMap) ==
  IF docs = <<>> THEN geoMap
  ELSE LET countryCode == extractCountryCode(Head(docs)) IN
       IF countryCode = "" THEN AddQuotes(Tail(docs), geoMap)
       ELSE LET current == IF MapHas(geoMap, countryCode)
                             THEN MapGet(geoMap, countryCode)
                             ELSE GeoEntry(countryCode)
            IN AddQuotes(Tail(docs),
                         MapSet(geoMap, [current EXCEPT !.quotes = @ + 1]))

\* `data['total'] || data['totalAmount'] || 0`
OrderRevenue(data) ==
  IF ValueOrZero(data.total) # Num(0) THEN data.total
  ELSE ValueOrZero(data.totalAmount)

\* ordersSnapshot.forEach
RECURSIVE AddOrders(_, _, _)
AddOrders(docs, noQuotes, geoMap) ==
  IF docs = <<>> THEN geoMap
  ELSE LET data == Head(docs)
           countryCode == extractCountryCode(data)
           status == ToLowerCase(IF Truthy(data.status) THEN data.status ELSE "pending")
           converted == status \in {"completed", "delivered", "shipped"}
       IN IF countryCode = "" THEN AddOrders(Tail(docs), noQuotes, geoMap)
          ELSE LET current == IF MapHas(geoMap, countryCode)
                                THEN MapGet(geoMap, countryCode)
                                ELSE GeoEntry(countryCode)
               IN AddOrders(Tail(docs), noQuotes,
                    MapSet(geoMap,
                      [current EXCEPT
                         !.quotes = IF noQuotes THEN @ + 1 ELSE @,
                         !.conversions = IF converted THEN @ + 1 ELSE @,
                         !.revenue = IF converted THEN JsAdd(@, OrderRevenue(data))
                                     ELSE @]))

\* Array.prototype.sort((a, b) => b.quotes - a.quotes), which is stable.
RECURSIVE InsertByQuotesDesc(_, _)
InsertByQuotesDesc(x, sorted) ==
  IF sorted = <<>> THEN <<x>>
  ELSE IF x.quotes >= Head(sorted).quotes THEN <<x>> \o sorted
  ELSE <<Head(sorted)>> \o InsertByQuotesDesc(x, Tail(sorted))

\* The entries left in the order of the Map.
SortByQuotesDesc_Unsorted(s) == s

RECURSIVE SortByQuotesDesc(_)
SortByQuotesDesc(s) ==
  IF s = <<>> THEN <<>>
  ELSE InsertByQuotesDesc(s[1], SortByQuotesDesc(SubSeq(s, 2, Len(s))))

\* getGeographicData without the catch on the fetch of the quotes.
GeographicBody_NoQuotesCatch(range, ordersFails, quotesFails) ==
  IF ordersFails \/ quotesFails THEN Rejected
  ELSE LET ordersSnapshot == DocsIn("orders", range)
           quotesDocs == DocsIn("quotes", range)
           geoMap == AddOrders(ordersSnapshot, Len(quotesDocs) = 0,
                               AddQuotes(quotesDocs, <<>>))
           entries == [i \in 1..Len(geoMap) |->
                         [country |-> geoMap[i].country,
                          countryCode |-> geoMap[i].countryCode,
                          region |-> geoMap[i].region,
                          quotes |-> geoMap[i].quotes,
                          conversions |-> geoMap[i].conversions,
                          revenue |-> geoMap[i].revenue]]
       IN Ok(SortByQuotesDesc(
               SelectSeq(entries, LAMBDA e : e.quotes > 0 \/ e.conversions > 0)))

GeographicBody(range, ordersFails, quotesFails) ==
  IF ordersFails THEN Rejected
  ELSE LET ordersSnapshot == DocsIn("orders", range)
           quotesDocs == IF quotesFails THEN <<>> ELSE DocsIn("quotes", range)
           geoMap == AddOrders(ordersSnapshot, Len(quotesDocs) = 0,
                               AddQuotes(quotesDocs, <<>>))
           entries == [i \in 1..Len(geoMap) |->
                         [country |-> geoMap[i].country,
                          countryCode |-> geoMap[i].countryCode,
                          region |-> geoMap[i].region,
                          quotes |-> geoMap[i].quotes,
                          conversions |-> geoMap[i].conversions,
                          revenue |-> geoMap[i].revenue]]
       IN Ok(SortByQuotesDesc(
               SelectSeq(entries, LAMBDA e : e.quotes > 0 \/ e.conversions > 0)))

getGeographicData(range, ordersFails, quotesFails) ==
  TryCatch(GeographicBody(range, ordersFails, quotesFails), <<>>)

\* ---- getGeographicData over orders and quotes of several origins
\* Where a record names its country: nowhere, as a code in either case, as a
\* name, in a later field after an empty one, in two fields that disagree,
\* and as a name that the table does not hold.
GeoOrigins ==
  {[countryCode |-> Absent, country |-> Absent, shippingAddress |-> NoAddress,
    billingAddress |-> NoAddress, customerCountry |-> Absent],
   [countryCode |-> "BR", country |-> Absent, shippingAddress |-> NoAddress,
    billingAddress |-> NoAddress, customerCountry |-> Absent],
   [countryCode |-> "br", country |-> Absent, shippingAddress |-> NoAddress,
    billingAddress |-> NoAddress, customerCountry |-> Absent],
   [countryCode |-> "", country |-> "Brazil", shippingAddress |-> NoAddress,
    billingAddress |-> NoAddress, customerCountry |-> "US"],
   [countryCode |-> Absent, country |-> "",
    shippingAddress |-> [countryCode |-> "", country |-> "Mexico"],
    billingAddress |-> [countryCode |-> "DE", country |-> Absent],
    customerCountry |-> Absent],
   [countryCode |-> Absent, country |-> Absent, shippingAddress |-> NoAddress,
    billingAddress |-> [countryCode |-> Absent, country |-> "Germany"],
    customerCountry |-> "US"],
   [countryCode |-> Absent, country |-> Absent, shippingAddress |-> NoAddress,
    billingAddress |-> NoAddress, customerCountry |-> "Narnia"]}

GeoDoc(t, origin, status, total) ==
  [Doc(Ts(t), NoField, NoField, status, total, Absent) EXCEPT
     !.countryCode = origin.countryCode, !.country = origin.country,
     !.shippingAddress = origin.shippingAddress,
     !.billingAddress = origin.billingAddress,
     !.customerCountry = origin.customerCountry]

\* An order or a quote of each origin a day before now; for Brazil also a
\* pending, a shipped and a cancelled order, an order whose total is a numeric
\* string, and a record of the year before.
GeoOrders ==
  {GeoDoc(TrendNow - TicksPerDay, o, "completed", Num(100)) : o \in GeoOrigins}
    \cup {GeoDoc(TrendNow - TicksPerDay, CHOOSE o \in GeoOrigins : o.countryCode = "BR",
                 st, Num(50)) : st \in {"pending", "Shipped", Absent}}
    \cup {GeoDoc(TrendNow - TicksPerDay, CHOOSE o \in GeoOrigins : o.countryCode = "BR",
                 "completed", Str(100))}

GeoQuotes ==
  {GeoDoc(TrendNow - TicksPerDay, o, Absent, NoField) :
     o \in {g \in GeoOrigins : g.countryCode \in {Absent, "BR"} /\ g.country = Absent
                                 /\ g.customerCountry \in {Absent, "Narnia"}
                                 /\ g.billingAddress = NoAddress}}
    \cup {GeoDoc(0, CHOOSE o \in GeoOrigins : o.countryCode = "BR", Absent, NoField)}

\* One quote of Brazil followed by two of a country fetched after it.
GeoQuotesLaterAhead ==
  LET quote(o) == GeoDoc(TrendNow - TicksPerDay, o, Absent, NoField)
      first == quote(CHOOSE o \in GeoOrigins : o.countryCode = "BR")
      later == quote(CHOOSE o \in GeoOrigins : o.customerCountry = "Narnia")
  IN <<first, later, later>>

\* Up to MaxDocs orders and quotes, and these three quotes with up to one
\* order.
GeoStores ==
  {[EmptyStore EXCEPT !["orders"] = WithIds(o), !["quotes"] = WithIds(q)] :
     o \in CollectionsUpTo(GeoOrders, MaxDocs),
     q \in CollectionsUpTo(GeoQuotes, MaxDocs)}
    \cup {[EmptyStore EXCEPT !["orders"] = WithIds(o),
                             !["quotes"] = WithIds(GeoQuotesLaterAhead)] :
            o \in CollectionsUpTo(GeoOrders, 1)}

GetGeographicDataCall(period, ordersFails, quotesFails) ==
  /\ call.op = "none"
  /\ call' = [op |-> "getGeographicData", period |-> period,
              range |-> getPeriodBounds(period).current,
              ordersFails |-> ordersFails, quotesFails |-> quotesFails,
              result |-> getGeographicData(getPeriodBounds(period).current,
                                           ordersFails, quotesFails)]
  /\ UNCHANGED <<currencyVars, storeVars, logger>>

InitGeo ==
  /\ InitCurrency
  /\ now = TrendNow
  /\ store \in GeoStores
  /\ call = NoCall
  /\ logger = NewLogger

NextGeo ==
  \/ \E period \in Periods, ordersFails \in BOOLEAN, quotesFails \in BOOLEAN :
       GetGeographicDataCall(period, ordersFails, quotesFails)
  \/ Return

SpecGeo == InitGeo /\ [][NextGeo]_vars

\* ------------------------------------------------------------ entry points
CurrencyEntryPoints ==
  {"getDashboardStats", "getAnalyticsSnapshot", "getRecentActivityFeed"}
RangeEntryPoints == {"getRevenueTrend", "getTopProducts", "getGeographicData"}
EntryPoints == CurrencyEntryPoints \cup RangeEntryPoints

\* The resolveCurrencyCode invocation of the entry point in progress.
EntryCaller == CHOOSE c \in Callers : \A d \in Callers : c <= d

NoBounds == [current |-> [start |-> 0, end |-> 0], previous |-> [start |-> 0, end |-> 0]]

\* An invocation: the entry point, its period (if it has one) and its
\* maxItems or limit (if it has one).
Invocation(op, period, limit) == [op |-> op, period |-> period, limit |-> limit]

Invocations ==
  {Invocation("getDashboardStats", Null, 0)}
    \cup {Invocation(op, p, 0) :
            op \in {"getAnalyticsSnapshot", "getRevenueTrend", "getGeographicData"},
            p \in Periods \cup {"other"}}
    \cup {Invocation("getRecentActivityFeed", Null, n) : n \in 0..MaxItems}
    \cup {Invocation("getTopProducts", p, n) : p \in Periods \cup {"other"}, n \in {1, 10}}

\* The queries of the three range entry points.
RangeQueries == {<<"orders", "query">>, <<"quotes", "query">>}

\* The queries an entry point issues.
QueriesOf(op) ==
  CASE op = "getDashboardStats" -> DashboardQueries \cup ActivityQueries
    [] op = "getAnalyticsSnapshot" -> AnalyticsQueries \cup ActivityQueries
    [] op = "getRecentActivityFeed" -> ActivityQueries
    [] op = "getGeographicData" -> RangeQueries
    [] OTHER -> {<<"orders", "query">>}

\* The failures of the queries of one invocation: none, one query, the two
\* queries of one computation (attempt and fallback), or all.
Failures(op) ==
  LET all == QueriesOf(op) IN
  {{}, all}
    \cup {{p[1], p[2]} : p \in {x \in all \X all : x[1][1] = x[2][1]}}

\* The value an entry point produces from the store as it is, with the
\* currency code its resolveCurrencyCode returned and the bounds it computed.
EntryResult(c, currencyCode, failing) ==
  LET Fails(q) == q \in failing IN
  CASE c.op = "getDashboardStats" -> getDashboardStats(currencyCode, failing)
    [] c.op = "getAnalyticsSnapshot" ->
         getAnalyticsSnapshot(c.period, currencyCode, c.bounds, failing)
    [] c.op = "getRecentActivityFeed" ->
         getRecentActivityFeed(c.limit, currencyCode, failing)
    [] c.op = "getRevenueTrend" ->
         getRevenueTrend(c.period, c.bounds.current, Fails(<<"orders", "query">>))
    [] c.op = "getTopProducts" ->
         getTopProducts(c.bounds.current, c.limit, Fails(<<"orders", "query">>))
    [] c.op = "getGeographicData" ->
         getGeographicData(c.bounds.current, Fails(<<"orders", "query">>),
                           Fails(<<"quotes", "query">>))

\* The synchronous start of an entry point: the three snapshot operations
\* begin to resolve the currency code, the three range operations compute
\* their range and issue their queries.
EntryStart(inv) ==
  /\ call.op = "none"
  /\ IF inv.op \in CurrencyEntryPoints
       THEN /\ Call(EntryCaller)
            /\ call' = [op |-> inv.op, period |-> inv.period, limit |-> inv.limit,
                        pc |-> "resolving", bounds |-> NoBounds,
                        failing |-> {}, result |-> Rejected]
       ELSE /\ call' = [op |-> inv.op, period |-> inv.period, limit |-> inv.limit,
                        pc |-> "fetching",
                        bounds |-> getPeriodBounds(inv.period),
                        failing |-> {}, result |-> Rejected]
            /\ UNCHANGED currencyVars
  /\ UNCHANGED <<storeVars, logger>>

\* resolveCurrencyCode has returned: getAnalyticsSnapshot computes its bounds,
\* and the concurrent computations are started.
EntryFanOut ==
  /\ call.op \in CurrencyEntryPoints
  /\ call.pc = "resolving"
  /\ callers[EntryCaller].pc = "done"
  /\ call' = [call EXCEPT !.pc = "fetching",
                          !.bounds = IF call.op = "getAnalyticsSnapshot"
                                       THEN getPeriodBounds(call.period) ELSE NoBounds]
  /\ UNCHANGED <<currencyVars, storeVars, logger>>

\* The queries settle, those of `failing` with an error, and the entry point
\* settles.
EntryComplete(failing) ==
  /\ call.op \in EntryPoints
  /\ call.pc = "fetching"
  /\ call' = [call EXCEPT !.pc = "returned",
                          !.failing = failing,
                          !.result = EntryResult(call, callers[EntryCaller].result,
                                                 failing)]
  /\ UNCHANGED <<currencyVars, storeVars, logger>>

\* The caller has taken the outcome.
EntryReturn ==
  /\ call.op \in EntryPoints
  /\ call.pc = "returned"
  /\ call' = NoCall
  /\ callers' = [callers EXCEPT ![EntryCaller] = IdleCaller]
  /\ UNCHANGED <<cachedCurrencyCode, currencyResolver, promises, storeVars, logger>>

\* ---- the clock and the record stores SpecSnapshot starts from
\* The clock starts one tick into the second day of the calendar and may
\* advance by one tick while an entry point is suspended.
SnapshotStart == TicksPerDay + 1
SnapshotEnd == SnapshotStart + 1

Tick ==
  /\ call.op \in EntryPoints
  /\ call.pc # "returned"
  /\ now < SnapshotEnd
  /\ now' = now + 1
  /\ UNCHANGED <<currencyVars, store, call, logger>>

\* Orders of yesterday and of today, completed or pending, with or without a
\* country and a recorded cost.
SnapshotOrder(t, status, country, cost) ==
  [Doc(Ts(t), NoField, NoField, status, Num(500), Absent) EXCEPT
     !.totalAmount = Num(500), !.costPrice = cost, !.countryCode = country,
     !.items = <<Item("rig-1", "Rig", 250, 2)>>]

SnapshotOrders ==
  {SnapshotOrder(0, "completed", "BR", NoField),
   SnapshotOrder(TicksPerDay, "completed", "br", Num(300)),
   SnapshotOrder(TicksPerDay, "pending", "BR", NoField),
   SnapshotOrder(TicksPerDay, "completed", Absent, NoField)}

SnapshotQuote == [Doc(Ts(TicksPerDay), NoField, NoField, Absent, NoField, Absent)
                    EXCEPT !.country = "Brazil"]

SnapshotStores ==
  {[EmptyStore EXCEPT
      !["orders"] = WithIds(o),
      !["quotes"] = WithIds(q),
      !["users"] = WithIds(<<Doc(Ts(TicksPerDay), NoField, NoField, Absent,
                                 NoField, Absent)>>),
      !["products"] = WithIds(<<Doc(Ts(0), Ts(TicksPerDay), NoField, Absent,
                                    NoField, Absent)>>),
      !["media"] = WithIds(<<Doc(NoField, NoField, Ts(0), Absent, NoField,
                                 "gallery")>>),
      !["productReviews"] = WithIds(<<Doc(Ts(0), NoField, NoField, "pending",
                                          NoField, Absent)>>)] :
     o \in {<<>>, SetToSeq(SnapshotOrders)} \cup {<<x>> : x \in SnapshotOrders},
     q \in {<<>>, <<SnapshotQuote>>}}

InitSnapshot ==
  /\ InitCurrency
  /\ now = SnapshotStart
  /\ store \in SnapshotStores
  /\ call = NoCall
  /\ logger = NewLogger

NextSnapshot ==
  \/ \E inv \in Invocations : EntryStart(inv)
  \/ \E p \in PromiseIds, o \in FetchOutcomes :
       FetchSettles(p, o) /\ UNCHANGED <<store, now, call, logger>>
  \/ \E p \in PromiseIds : FinallyRuns(p) /\ UNCHANGED <<store, now, call, logger>>
  \/ Resume(EntryCaller) /\ UNCHANGED <<store, now, call, logger>>
  \/ EntryFanOut
  \/ Tick
  \/ \E f \in Failures(call.op) : EntryComplete(f)
  \/ EntryReturn

SpecSnapshot == InitSnapshot /\ [][NextSnapshot]_vars

\* ---- getAnalyticsSnapshot over records stamped at the bounds of its ranges
\* Instants around the ranges of a call made at SnapshotStart: the first
\* instant of the day before, the last instant before today, the first of
\* today, the instant of the call and the one after it; and a timestamp that
\* cannot be read.
BoundaryStamps ==
  {Ts(0), Ts(TicksPerDay - 1), Ts(TicksPerDay), Ts(SnapshotStart), Ts(SnapshotEnd),
   NanStr}

BoundaryOrders ==
  {Doc(t, NoField, NoField, "completed", Num(500), Absent) : t \in BoundaryStamps}

BoundaryUsers ==
  {Doc(t, NoField, NoField, Absent, NoField, Absent) : t \in BoundaryStamps}

\* A product created today and never updated, and one updated today that
\* records no creation; a gallery upload of today.
BoundaryProducts ==
  {Doc(Ts(TicksPerDay), NoField, NoField, Absent, NoField, Absent),
   Doc(NoField, Ts(TicksPerDay), NoField, Absent, NoField, Absent)}

BoundaryMedia == {Doc(NoField, NoField, Ts(TicksPerDay), Absent, NoField, "gallery")}

\* One collection holds up to MaxDocs such records, the others none.
AnalyticsStores ==
  UNION {{[EmptyStore EXCEPT ![c[1]] = WithIds(docs)] :
            docs \in CollectionsUpTo(c[2], MaxDocs)} :
         c \in {<<"orders", BoundaryOrders>>, <<"users", BoundaryUsers>>,
                <<"products", BoundaryProducts>>, <<"media", BoundaryMedia>>}}

AnalyticsInvocations ==
  {Invocation("getAnalyticsSnapshot", p, 0) : p \in Periods}

\* The failures of the queries of one call: none, every server aggregate (all
\* eight computations scan), those of the two order aggregates, or all.
AnalyticsFailures ==
  {{}, {<<c, "server">> : c \in AnalyticsParts},
   {<<c, "server">> : c \in {"currentOrders", "previousOrders"}},
   AnalyticsQueries \cup ActivityQueries}

InitAnalytics ==
  /\ InitCurrency
  /\ now = SnapshotStart
  /\ store \in AnalyticsStores
  /\ call = NoCall
  /\ logger = NewLogger

NextAnalytics ==
  \/ \E inv \in AnalyticsInvocations : EntryStart(inv)
  \/ \E p \in PromiseIds, o \in FetchOutcomes :
       FetchSettles(p, o) /\ UNCHANGED <<store, now, call, logger>>
  \/ \E p \in PromiseIds : FinallyRuns(p) /\ UNCHANGED <<store, now, call, logger>>
  \/ Resume(EntryCaller) /\ UNCHANGED <<store, now, call, logger>>
  \/ EntryFanOut
  \/ Tick
  \/ \E f \in AnalyticsFailures : EntryComplete(f)
  \/ EntryReturn

SpecAnalytics == InitAnalytics /\ [][NextAnalytics]_vars

\* ------------------------------------------------------- specifications
\* The service as constructed, over an empty store.
InitService ==
  /\ InitCurrency
  /\ store = EmptyStore
  /\ now = MaxTime
  /\ call = NoCall
  /\ logger = NewLogger

SpecCurrency == InitService /\ [][NextCurrency]_vars

SpecLogger == InitService /\ [][NextLogger]_vars

\* ---------------------------------------------------------- claims C1..C3

\* Callers that found no cached code and waited for a resolution, and are back.
ReturnedWaiters == {c \in Callers : callers[c].pc = "done" /\ callers[c].awaits # 0}

\* C1 (as claimed). Single-flight: however the callers that arrive while no
\* currency code is cached interleave with the settlement of the settings fetch,
\* at most one settings fetch is issued and all of them return the same code.
\* (Behaviours with a failed fetch are left to C2.)
C1_SingleFlight ==
  (\A p \in PromiseIds : promises[p].outcome # "rejected") =>
    /\ FetchesIssued <= 1
    /\ \A c, d \in ReturnedWaiters : callers[c].result = callers[d].result

\* C2 (as claimed). When every settings fetch so far has failed, the waiters
\* get 'USD' and the cached currency code is still empty (so that the next
\* call fetches again).
C2_FailureLeavesCacheEmpty ==
  (/\ FetchesIssued >= 1
   /\ \A p \in PromiseIds :
        promises[p].state # "none" => promises[p].outcome = "rejected") =>
    /\ cachedCurrencyCode = Null
    /\ \A c \in ReturnedWaiters : callers[c].result = "USD"

\* C3 (as claimed). Once a settings fetch has succeeded with code v, no
\* further settings fetch is issued and the cached code, once v, stays v and
\* is never another code.
C3_CachedForever ==
  [][\A p \in PromiseIds :
       promises[p].outcome \notin {Null, "rejected"} =>
         /\ FetchesIssued' = FetchesIssued
         /\ cachedCurrencyCode' \in {Null, promises[p].value}
         /\ (cachedCurrencyCode = promises[p].value =>
               cachedCurrencyCode' = cachedCurrencyCode)]_vars

\* ---------------------------------------------------------- claims C4..C5

\* What the server-aggregate path of the invocation in `call` returns.
ServerValueOf(c) ==
  CASE c.op = "aggregateOrders" -> aggregateOrdersServer(c.range)
    [] c.op = "countDocumentsInRange" ->
         LET a == RangeCountArgs(c.metric) IN
         countDocumentsInRangeServer(a.collectionPath, a.timestampField,
                                     c.range, a.options)
    [] OTHER -> getOrdersSummaryServer

\* What the fallback scan of the invocation in `call` computes.
ScanValueOf(c) ==
  CASE c.op = "aggregateOrders" -> aggregateOrdersScan(c.range)
    [] c.op = "countDocumentsInRange" ->
         LET a == RangeCountArgs(c.metric) IN
         countDocumentsInRangeScan(a.collectionPath, a.timestampField,
                                   c.range, a.options)
    [] OTHER -> getOrdersSummaryScan

\* C4 (as claimed). Path-invariance: an aggregate-or-scan operation whose
\* server aggregate failed returns, from the fallback scan, the values the
\* server aggregate returns over the same records.
C4_PathInvariance ==
  (/\ call.op \in {"aggregateOrders", "countDocumentsInRange", "getOrdersSummary"}
   /\ call.serverFails /\ ~call.scanFails) =>
    call.result.value = ServerValueOf(call)

\* C5. aggregateOrders and countDocumentsInRange never surface a failure of
\* the server aggregate: they are rejected exactly when the server aggregate
\* and the fallback fetch both fail, and after a server failure alone they
\* return what the client-side scan computes.
C5_ServerFailureNeverSurfaces ==
  call.op \in {"aggregateOrders", "countDocumentsInRange"} =>
    /\ call.result.ok = ~(call.serverFails /\ call.scanFails)
    /\ (call.serverFails /\ ~call.scanFails) =>
         call.result.value = ScanValueOf(call)

\* aggregateOrders returned a non-empty aggregate from the scan after its
\* server aggregate failed.
C5_Witness ==
  /\ call.op = "aggregateOrders"
  /\ call.serverFails /\ ~call.scanFails
  /\ call.result.ok
  /\ call.result.value.count > 0

\* ---------------------------------------------------------- claims C6..C7

BothQueriesOf(k) == {<<k, "primary">>, <<k, "secondary">>}

\* C6 (as claimed). When both queries of exactly one kind fail and the other
\* three kinds are fetched, getRecentActivity still returns the feed: the
\* merged items of the other three kinds.
C6_OneFailureDoesNotBlock ==
  \A k \in {"order", "product", "gallery", "user"} :
    (call.op = "getRecentActivity" /\ call.failing = BothQueriesOf(k)) =>
      /\ call.result.ok
      /\ call.result.value =
           MergeActivity([ActivityEvents("USD", call.failing) EXCEPT ![k] = Ok(<<>>)],
                         call.maxItems)

\* The items the four kinds fetched for the invocation in `call`.
FetchedItems ==
  LET events == ActivityEvents("USD", call.failing)
  IN events["order"].value \o events["product"].value
       \o events["gallery"].value \o events["user"].value

\* C7. A feed returned by getRecentActivity has min(maxItems, number of
\* fetched items) items, every kind having fetched at most 10; it is sorted by
\* timestamp, latest first; its items are fetched items, none twice; and no
\* fetched item left out is newer than a returned one.
C7_FeedCappedSortedMostRecent ==
  (call.op = "getRecentActivity" /\ call.result.ok) =>
    LET feed == call.result.value
        fetched == FetchedItems
        events == ActivityEvents("USD", call.failing)
    IN /\ \A k \in DOMAIN events : Len(events[k].value) <= ActivityLimit
       /\ Len(feed) = IF call.maxItems < Len(fetched)
                         THEN call.maxItems ELSE Len(fetched)
       /\ \A i \in 1..(Len(feed) - 1) : feed[i].timestamp >= feed[i + 1].timestamp
       /\ \A i \in 1..Len(feed) : \E j \in 1..Len(fetched) : feed[i] = fetched[j]
       /\ \A i, j \in 1..Len(feed) : i # j => feed[i] # feed[j]
       /\ \A j \in 1..Len(fetched) :
            (\A i \in 1..Len(feed) : feed[i] # fetched[j]) =>
              \A i \in 1..Len(feed) : fetched[j].timestamp <= feed[i].timestamp

\* A feed of several kinds and instants that the cap has cut.
C7_Witness ==
  /\ call.op = "getRecentActivity"
  /\ call.result.ok
  /\ call.maxItems >= 2
  /\ Len(FetchedItems) > call.maxItems
  /\ \E i, j \in 1..Len(call.result.value) :
       /\ call.result.value[i].type # call.result.value[j].type
       /\ call.result.value[i].timestamp # call.result.value[j].timestamp

\* --------------------------------------------------------- claims C8..C10

\* The invocation in `call` is of entry point op and has settled.
Settled(op) == call.op = op /\ call.pc = "returned"

\* Some computation of the fan-out failed past its own fallback: the attempt
\* and the fallback of one count both failed, or both queries of one kind of
\* activity did.
PartFailed(parts, failing) ==
  \/ \E c \in parts : <<c, "server">> \in failing /\ <<c, "scan">> \in failing
  \/ /\ "ordersSummary" \in parts
     /\ <<"ordersSummary", "scan">> \in failing
     /\ \E q \in {"total", "pending", "revenue"} : <<"ordersSummary", q>> \in failing
  \/ \E k \in {"order", "product", "gallery", "user"} : BothQueriesOf(k) \subseteq failing

DashboardParts ==
  {"totalProducts", "totalGalleryImages", "totalUsers", "pendingReviews",
   "ordersSummary"}

\* C8. getDashboardStats never rejects. When one of its six computations
\* fails past its own fallback the result is the default snapshot (every
\* count and the revenue 0, currency code 'USD', no activity); otherwise it
\* carries the computed counts, the resolved currency code and a feed of at
\* most 8 items.
C8_DashboardDegradesToDefault ==
  Settled("getDashboardStats") =>
    /\ call.result.ok
    /\ LET v == call.result.value IN
       IF PartFailed(DashboardParts, call.failing)
         THEN /\ v.totalProducts = 0 /\ v.totalOrders = 0
              /\ v.totalGalleryImages = 0 /\ v.totalUsers = 0
              /\ v.pendingOrders = 0 /\ v.pendingReviews = 0
              /\ v.totalRevenue = 0
              /\ v.currencyCode = "USD"
              /\ v.recentActivity = <<>>
         ELSE /\ v.totalProducts = Len(store["products"])
              /\ v.totalOrders = Len(store["orders"])
              /\ v.totalGalleryImages = GalleryCount
              /\ v.totalUsers = Len(store["users"])
              /\ v.pendingReviews = PendingReviews
              /\ v.totalRevenue = ServerSum(store["orders"])
              /\ v.currencyCode = callers[EntryCaller].result
              /\ Len(v.recentActivity) <= 8

\* A dashboard over a store with orders, resolved to EUR, that lost one
\* computation and fell back to the default snapshot.
C8_Witness ==
  /\ Settled("getDashboardStats")
  /\ PartFailed(DashboardParts, call.failing)
  /\ store["orders"] # <<>>
  /\ callers[EntryCaller].result = "EUR"
  /\ call.result.ok
  /\ call.result.value.currencyCode = "USD"
  /\ call.result.value.totalOrders = 0

AnalyticsMetricKeys ==
  <<"totalOrders", "revenue", "averageOrderValue", "newCustomers",
    "productsUpdated", "galleryUploads">>

\* C9. getAnalyticsSnapshot(period) never rejects and its result carries the
\* period it was given. Its metrics are the six metrics in their order when
\* all nine computations succeed, and empty together with an empty activity
\* list when one of them fails past its fallback; never a partial list.
C9_AnalyticsAllOrNothing ==
  Settled("getAnalyticsSnapshot") =>
    /\ call.result.ok
    /\ LET v == call.result.value IN
       /\ v.period = call.period
       /\ IF PartFailed(AnalyticsParts, call.failing)
            THEN v.metrics = <<>> /\ v.recentActivity = <<>>
            ELSE [i \in 1..Len(v.metrics) |-> v.metrics[i].key] = AnalyticsMetricKeys

\* An analytics snapshot of the week that lost one computation and came back
\* with no metrics, and one that lost none.
C9_Witness ==
  /\ Settled("getAnalyticsSnapshot")
  /\ call.period = "week"
  /\ store["orders"] # <<>>
  /\ PartFailed(AnalyticsParts, call.failing)
  /\ call.result.ok
  /\ call.result.value.metrics = <<>>

\* C10 (as claimed). Every public entry point is total: whatever queries
\* fail, the invocation settles with a value, never with a rejection.
C10_EntryPointsTotal ==
  \A op \in EntryPoints : Settled(op) => call.result.ok

\* -------------------------------------------------------- claims C11..C13

\* The bounds getPeriodBounds returned for period tag p.
BoundsReturned(p) == call.op = "getPeriodBounds" /\ call.period = p

\* C11. For the four period tags and every now, both ranges getPeriodBounds
\* returns have start <= end, and the previous range ends at or before the
\* start of the current one.
C11_RangesOrderedAndDisjoint ==
  \A p \in Periods :
    BoundsReturned(p) =>
      LET b == call.result IN
      /\ b.current.start <= b.current.end
      /\ b.previous.start <= b.previous.end
      /\ b.previous.end <= b.current.start

\* Week bounds computed after the start of a day: a non-empty current range
\* that the previous range touches.
C11_Witness ==
  /\ BoundsReturned("week")
  /\ call.result.current.start < call.result.current.end
  /\ call.result.previous.start < call.result.previous.end
  /\ call.result.previous.end = call.result.current.start
  /\ now % TicksPerDay # 0

\* C12 (as claimed). For a period tag outside the four, both ranges are the
\* empty range [start of today, start of today).
C12_UnknownTagEmptyRanges ==
  BoundsReturned("other") =>
    LET today == now - (now % TicksPerDay) IN
    /\ call.result.current = [start |-> today, end |-> today]
    /\ call.result.previous = [start |-> today, end |-> today]

\* t is the first instant of day 1 of month `month` of year `year`.
IsFirstOfMonth(t, year, month) ==
  /\ t % TicksPerDay = 0
  /\ getDate(t) = 1 /\ getMonth(t) = month /\ getFullYear(t) = year

\* C13. today: current [start of today, now), previous [start of yesterday,
\* start of today). week: current from the start of the day 6 days before
\* now, previous the 7 days that end there. month: current from the 1st of
\* this month, previous from the 1st of the month before, the last month of
\* the year before when now is in the first month. year: current from the
\* first day of this year, previous from the first day of the year before.
\* Every current range ends at now and every previous range ends where the
\* current one starts.
C13_BoundsOfEachPeriod ==
  \A p \in Periods :
    BoundsReturned(p) =>
      LET b == call.result
          today == now - (now % TicksPerDay)
          year == getFullYear(now)
          month == getMonth(now)
      IN /\ b.current.end = now
         /\ b.previous.end = b.current.start
         /\ p = "today" =>
              /\ b.current.start = today
              /\ b.previous.start = today - TicksPerDay
         /\ p = "week" =>
              /\ b.current.start = today - 6 * TicksPerDay
              /\ b.previous.start = b.current.start - 7 * TicksPerDay
         /\ p = "month" =>
              /\ IsFirstOfMonth(b.current.start, year, month)
              /\ IF month = 0
                   THEN IsFirstOfMonth(b.previous.start, year - 1, MonthsPerYear - 1)
                   ELSE IsFirstOfMonth(b.previous.start, year, month - 1)
         /\ p = "year" =>
              /\ IsFirstOfMonth(b.current.start, year, 0)
              /\ IsFirstOfMonth(b.previous.start, year - 1, 0)

\* Month bounds computed in the first month of a year, after its first day:
\* the previous range is the last month of the year before.
C13_Witness ==
  /\ BoundsReturned("month")
  /\ getMonth(now) = 0 /\ getDate(now) > 1
  /\ getFullYear(call.result.previous.start) = getFullYear(now) - 1
  /\ call.result.previous.end - call.result.previous.start
       # DaysInMonth(0) * TicksPerDay


\* -------------------------------------------------------- claims C14..C15

ChangeReturned == call.op = "calculateChange"

Abs(n) == IF n < 0 THEN -n ELSE n

TrendReturned == call.op = "getRevenueTrend" /\ ~call.queryFails

TrendSeries == call.result.value

\* The orders the query of the call fetched.
TrendFetched ==
  LET docs == CompletedOrdersIn(call.range) IN {docs[i] : i \in 1..Len(docs)}

\* The start of the hour, day or month that holds t.
UnitStart(t, period) ==
  CASE period = "today" -> t - (t % TicksPerHour)
    [] period = "year" -> StartOfDay(t) - (getDate(t) - 1) * TicksPerDay
    [] OTHER -> StartOfDay(t)

\* C16: the series of getRevenueTrend is strictly ascending by the instant of
\* its buckets, and these instants are the starts of the hours (today), days
\* (week, month) or months (year) that hold the fetched orders.
C16_TrendStrictlyAscending ==
  TrendReturned =>
    /\ \A i \in 1..Len(TrendSeries), j \in 1..Len(TrendSeries) :
         i < j => TrendSeries[i].date < TrendSeries[j].date
    /\ {TrendSeries[i].date : i \in 1..Len(TrendSeries)}
         = {UnitStart(d.createdAt.v, call.period) : d \in TrendFetched}

\* Two orders of two hours of one day make two buckets of the series of today.
C16_Witness ==
  /\ TrendReturned
  /\ call.period = "today"
  /\ Len(TrendSeries) = 2
  /\ Cardinality(TrendFetched) = 2
  /\ StartOfDay(TrendSeries[1].date) = StartOfDay(TrendSeries[2].date)

\* The fetched orders as a sequence, and those of the bucket of an instant.
TrendFetchedSeq == CompletedOrdersIn(call.range)

TrendFetchedOf(date) ==
  SelectSeq(TrendFetchedSeq,
            LAMBDA d : UnitStart(d.createdAt.v, call.period) = date)

\* The amount an order records: its totalAmount as a number, 0 without one.
AmountOf(d) ==
  IF d.totalAmount.k \in {"num", "str"} THEN d.totalAmount.v ELSE 0

AmountsOf(docs) == [i \in 1..Len(docs) |-> AmountOf(docs[i])]

\* C17: every fetched order contributes to exactly one bucket of the series of
\* getRevenueTrend: every bucket has orders >= 1 and is the bucket of a
\* fetched order, the orders of the buckets add up to the number of fetched
\* orders, and the revenues of the buckets add up to the sum of their amounts.
C17_EveryRecordInOneBucket ==
  TrendReturned =>
    /\ \A i \in 1..Len(TrendSeries) :
         /\ TrendSeries[i].orders >= 1
         /\ TrendFetchedOf(TrendSeries[i].date) # <<>>
         /\ TrendSeries[i].revenue.k = "num"
    /\ SumSeq([i \in 1..Len(TrendSeries) |-> TrendSeries[i].orders])
         = Len(TrendFetchedSeq)
    /\ SumSeq([i \in 1..Len(TrendSeries) |-> TrendSeries[i].revenue.v])
         = SumSeq(AmountsOf(TrendFetchedSeq))

\* In tenths: amount - cost for an order that records a cost, and
\* amount - 0.7 * amount for one that records none.
ProfitOf(d) ==
  IF d.costPrice.k = "num" THEN 10 * (AmountOf(d) - d.costPrice.v)
  ELSE 3 * AmountOf(d)

ProfitsOf(docs) == [i \in 1..Len(docs) |-> ProfitOf(docs[i])]

\* C18: the profit of every bucket of getRevenueTrend is the sum, over its
\* orders, of amount - cost for an order that records a cost (any cost >= 0)
\* and of amount - 0.7 * amount for an order that records no cost.
C18_ProfitUsesRecordedCost ==
  TrendReturned =>
    \A i \in 1..Len(TrendSeries) :
      TrendSeries[i].profit = SumSeq(ProfitsOf(TrendFetchedOf(TrendSeries[i].date)))

\* ---- geographic breakdown
GeoReturned == call.op = "getGeographicData" /\ ~call.ordersFails

GeoSeries == call.result.value

\* The fetched orders and inquiries of a country.
GeoOrdersOf(code) ==
  SelectSeq(DocsIn("orders", call.range), LAMBDA d : extractCountryCode(d) = code)

GeoQuotesOf(code) ==
  IF call.quotesFails THEN <<>>
  ELSE SelectSeq(DocsIn("quotes", call.range),
                 LAMBDA d : extractCountryCode(d) = code)

\* An order counts as a conversion when its status is completed, delivered or
\* shipped.
Fulfilled(d) ==
  d.status # Absent
    /\ ToLowerCase(d.status) \in {"completed", "delivered", "shipped"}

\* The total an order records, as a number.
TotalOf(d) ==
  IF ValueOrZero(d.total) # Num(0) THEN d.total.v ELSE ValueOrZero(d.totalAmount).v

TotalsOf(docs) == [i \in 1..Len(docs) |-> TotalOf(docs[i])]

\* No inquiry data exists at all: the quotes collection is empty or missing.
NoInquiryData == store["quotes"] = <<>> \/ call.quotesFails

\* C19: in getGeographicData every inquiry with a country adds 1 to the quotes
\* of its country, every order with a country adds 1 to conversions and its
\* total to revenue exactly when it is completed, delivered or shipped, and an
\* order adds 1 to quotes exactly when no inquiry data exists at all; a
\* completed order of 100 and a pending order of 50 from BR without quotes
\* give BR quotes 2, conversions 1 and revenue 100.
C19_GeographicCounts ==
  GeoReturned =>
    \A i \in 1..Len(GeoSeries) :
      LET e == GeoSeries[i]
          orders == GeoOrdersOf(e.countryCode)
          fulfilled == SelectSeq(orders, Fulfilled)
      IN /\ e.quotes = Len(GeoQuotesOf(e.countryCode))
                         + (IF NoInquiryData THEN Len(orders) ELSE 0)
         /\ e.conversions = Len(fulfilled)
         /\ e.revenue = Sum(SumSeq(TotalsOf(fulfilled)))

\* The seven fields that can name the country of a record, in the order of
\* the claim, and the first of them that is set.
CountryFields(d) ==
  <<d.countryCode, d.country, d.shippingAddress.countryCode,
    d.shippingAddress.country, d.billingAddress.countryCode,
    d.billingAddress.country, d.customerCountry>>

FirstNonEmpty(d) ==
  LET set == SelectSeq(CountryFields(d), Truthy) IN
  IF set = <<>> THEN "" ELSE Head(set)

\* The code of a value: a name of more than two characters is looked up, and
\* the outcome is in upper case.
CodeOf(v) ==
  ToUpperCase(IF Len(v) > 2 THEN convertCountryNameToCode(v) ELSE v)

\* The records fetched by the call.
GeoFetchedOrders == DocsIn("orders", call.range)

GeoFetchedQuotes ==
  IF call.quotesFails THEN <<>> ELSE DocsIn("quotes", call.range)

HasCountry(d) == FirstNonEmpty(d) # ""

\* extractCountryCode gives the code of the first field that is set, and the
\* empty string, never US, for a record with none.
ExtractsFirstNonEmpty(docs) ==
  \A i \in 1..Len(docs) :
    extractCountryCode(docs[i])
      = IF HasCountry(docs[i]) THEN CodeOf(FirstNonEmpty(docs[i])) ELSE ""

\* C20: extractCountryCode returns the first non-empty of the seven country
\* fields and the empty string when none is set, and getGeographicData skips
\* the records without a country: the quotes, conversions and revenue of every
\* country are what the fetched records that have a country give.
C20_RecordsWithoutCountrySkipped ==
  GeoReturned =>
    /\ ExtractsFirstNonEmpty(GeoFetchedOrders)
    /\ ExtractsFirstNonEmpty(GeoFetchedQuotes)
    /\ \A i \in 1..Len(GeoSeries) :
         LET e == GeoSeries[i]
             orders == GeoOrdersOf(e.countryCode)
             fulfilled == SelectSeq(orders, Fulfilled)
         IN /\ e.countryCode # ""
            /\ e.quotes = Len(GeoQuotesOf(e.countryCode))
                 + (IF SelectSeq(GeoFetchedQuotes, HasCountry) = <<>>
                      THEN Len(orders) ELSE 0)
            /\ e.conversions = Len(fulfilled)
            /\ e.revenue.k = "num" => e.revenue.v = SumSeq(TotalsOf(fulfilled))

\* The fetched orders and quotes of the call, and those that set none of the
\* seven country fields.
GeoFetched ==
  {GeoFetchedOrders[i] : i \in 1..Len(GeoFetchedOrders)}
    \cup {GeoFetchedQuotes[i] : i \in 1..Len(GeoFetchedQuotes)}

GeoFetchedWithoutCountry == {d \in GeoFetched : ~HasCountry(d)}

RegionLists ==
  {<<"LATAM", latinAmerica>>, <<"EU", europe>>, <<"APAC", apac>>,
   <<"NA", northAmerica>>, <<"MENA", mena>>}

RegionsHolding(code) == {r \in RegionLists : code \in r[2]}

\* C22: the five lists of getRegion are pairwise disjoint, getRegion gives a
\* code of a list the tag of that list and a code of no list OTHER, and every
\* code of the table of getCountryName is in exactly one list.
C22_RegionsPartitionTheTable ==
  /\ \A r \in RegionLists, q \in RegionLists : r # q => r[2] \cap q[2] = {}
  /\ call.op = "getRegion" =>
       /\ Cardinality(RegionsHolding(call.code)) <= 1
       /\ \A r \in RegionsHolding(call.code) : call.result = r[1]
       /\ RegionsHolding(call.code) = {} => call.result = "OTHER"
       /\ call.code \in DOMAIN CountryNames =>
            /\ Cardinality(RegionsHolding(call.code)) = 1
            /\ call.result # "OTHER"

\* getRegion has classified a code of the table, and a code of no list.
C22_Witness ==
  /\ call.op = "getRegion"
  /\ call.code = "US"
  /\ call.result = "NA"
  /\ getRegion("ZZ") = "OTHER"

\* ---- the list of getGeographicData
\* The codes of the fetched records with activity: a quote, a completed,
\* delivered or shipped order, or any order when no quote was fetched.
GeoActiveCodes ==
  {CodeOf(FirstNonEmpty(d)) :
     d \in {x \in GeoFetched : /\ HasCountry(x)
                               /\ \/ x \in {GeoFetchedQuotes[i] : i \in 1..Len(GeoFetchedQuotes)}
                                  \/ Fulfilled(x)
                                  \/ GeoFetchedQuotes = <<>>}}

\* C23: the list of getGeographicData has at most one entry per countryCode,
\* every entry has quotes > 0 or conversions > 0, every country with such
\* activity among the fetched records has an entry, and the entries are in
\* descending order of quotes.
C23_OneEntryPerActiveCountrySorted ==
  GeoReturned =>
    /\ \A i \in 1..Len(GeoSeries), j \in 1..Len(GeoSeries) :
         /\ i # j => GeoSeries[i].countryCode # GeoSeries[j].countryCode
         /\ i < j => GeoSeries[i].quotes >= GeoSeries[j].quotes
    /\ \A i \in 1..Len(GeoSeries) :
         GeoSeries[i].quotes > 0 \/ GeoSeries[i].conversions > 0
    /\ GeoActiveCodes \subseteq {GeoSeries[i].countryCode : i \in 1..Len(GeoSeries)}

\* The country whose quote was fetched first comes second, behind a country
\* with more quotes, and a country named by a code in either case has one
\* entry.
C23_Witness ==
  /\ GeoReturned
  /\ Len(GeoSeries) = 2
  /\ GeoSeries[1].quotes > GeoSeries[2].quotes
  /\ GeoSeries[2].countryCode = extractCountryCode(GeoFetchedQuotes[1])
  /\ {d.countryCode : d \in GeoFetched} = {"BR", "br", Absent}

\* C24: when the fetch of the quotes fails and the fetch of the orders
\* succeeds, getGeographicData returns the breakdown of the orders alone:
\* every country of a fetched order has an entry whose quotes are the number
\* of its orders, and no other country has one.
C24_FailedQuotesAreEmpty ==
  GeoReturned /\ call.quotesFails =>
    /\ call.result.ok
    /\ {GeoSeries[i].countryCode : i \in 1..Len(GeoSeries)}
         = {CodeOf(FirstNonEmpty(GeoFetchedOrders[i])) :
              i \in {n \in 1..Len(GeoFetchedOrders) : HasCountry(GeoFetchedOrders[n])}}
    /\ \A i \in 1..Len(GeoSeries) :
         /\ GeoSeries[i].quotes = Len(GeoOrdersOf(GeoSeries[i].countryCode))
         /\ GeoSeries[i].conversions
              = Len(SelectSeq(GeoOrdersOf(GeoSeries[i].countryCode), Fulfilled))

\* The fetch of quotes that lie in the range has failed, and two orders of a
\* country count as its two quotes.
C24_Witness ==
  /\ GeoReturned
  /\ call.quotesFails
  /\ DocsIn("quotes", call.range) # <<>>
  /\ Len(GeoSeries) = 1
  /\ GeoSeries[1].quotes = 2
  /\ GeoSeries[1].conversions = 1

\* ---- one capture of the bounds per analytics snapshot
AnalyticsCall == call.op = "getAnalyticsSnapshot"

\* C25: within one getAnalyticsSnapshot call the bounds are computed once,
\* before the fan-out, from the instant of that step (current.end is that
\* instant); they stay as computed while the call is suspended, however far
\* the clock advances, and the snapshot returned is the one that the eight
\* aggregations give on these current and previous ranges.
C25_BoundsCapturedOnce ==
  [][/\ AnalyticsCall /\ call.pc = "resolving" /\ call'.pc = "fetching" =>
          /\ call'.bounds = getPeriodBounds(call.period)
          /\ call'.bounds.current.end = now
     /\ AnalyticsCall /\ call.pc = "fetching" /\ call' # NoCall =>
          call'.bounds = call.bounds
     /\ AnalyticsCall /\ call.pc = "fetching" /\ call'.pc = "returned" =>
          call'.result = TryCatch(AnalyticsBody(call.period,
                                                callers[EntryCaller].result,
                                                call.bounds, call'.failing),
                                  EmptyAnalyticsSnapshot(call.period,
                                                         callers[EntryCaller].result))
    ]_vars

\* A snapshot has been returned after the clock advanced past the captured
\* instant, over orders stamped at that instant, which the captured current
\* range leaves out.
C25_Witness ==
  /\ AnalyticsCall
  /\ call.pc = "returned"
  /\ now > call.bounds.current.end
  /\ \E i \in 1..Len(store["orders"]) :
       store["orders"][i].createdAt = Ts(call.bounds.current.end)
  /\ call.result.value.metrics # <<>>
  /\ call.result.value.metrics[1].currentValue = 0

\* ---- the products-updated count
ProductsUpdatedCall ==
  /\ call.op = "countDocumentsInRange"
  /\ call.metric = "productsUpdated"
  /\ call.result.ok

\* The products whose updatedAt lies in the range of the call, and those
\* without an updatedAt whose createdAt lies in it.
ProductsStampedInRange ==
  SelectSeq(store["products"],
            LAMBDA d : IF d.updatedAt.k = "ts" THEN InRange(d.updatedAt.v, call.range)
                       ELSE d.createdAt.k = "ts" /\ InRange(d.createdAt.v, call.range))

\* C26: the products-updated count of countDocumentsInRange counts every
\* product whose updatedAt lies in the range, with or without a createdAt, and
\* every product without an updatedAt whose createdAt lies in the range, on
\* the server path as on the scan path.
C26_ProductsFallBackToCreated ==
  ProductsUpdatedCall => call.result.value >= Len(ProductsStampedInRange)

\* ---- the order of the queries of an aggregate-or-scan operation
FallbackCall == "issued" \in DOMAIN call

\* The places of the scan among the queries issued so far.
ScansIssued == {i \in 1..Len(call.issued) : call.issued[i] = "scan"}

\* C27: in aggregateOrders, countDocumentsInRange, getCollectionCount and
\* getOrdersSummary the scan is issued only after a server aggregate of the
\* operation has failed and after every server aggregate was issued; every
\* query is issued at most once; and an operation whose server aggregates
\* succeed returns without a scan.
C27_ScanOnlyAfterServerFailure ==
  FallbackCall =>
    /\ Cardinality(ScansIssued) <= 1
    /\ \A i \in 1..Len(call.issued), j \in 1..Len(call.issued) :
         i # j => call.issued[i] # call.issued[j]
    /\ \A i \in ScansIssued :
         /\ i = Len(call.issued)
         /\ \E q \in DOMAIN call.outcomes : call.outcomes[q] = "failed"
    /\ (call.pc = "returned" /\ \A q \in DOMAIN call.outcomes : call.outcomes[q] = "ok")
         => ScansIssued = {}
    /\ (call.pc = "returned" /\ ScansIssued = {}) => call.result.ok

\* The scan of getOrdersSummary was issued after one of its three server
\* aggregates failed, and the operation returned from it.
C27_Witness ==
  /\ FallbackCall
  /\ call.op = "getOrdersSummary"
  /\ call.pc = "returned"
  /\ call.issued = <<"total", "pending", "revenue", "scan">>
  /\ call.outcomes["pending"] = "failed"
  /\ call.result.ok

\* ---- current and previous values of one snapshot
\* An analytics snapshot with its metrics has been returned.
AnalyticsReturned ==
  /\ AnalyticsCall
  /\ call.pc = "returned"
  /\ call.result.value.metrics # <<>>

MetricOf(key) ==
  LET metrics == call.result.value.metrics IN
  metrics[CHOOSE i \in 1..Len(metrics) : metrics[i].key = key]

\* The records of a collection that carry a readable createdAt from start up
\* to, and not including, end.
StampedFromTo(collectionPath, start, end) ==
  {d \in {store[collectionPath][i] : i \in 1..Len(store[collectionPath])} :
     d.createdAt.k = "ts" /\ start <= d.createdAt.v /\ d.createdAt.v < end}

C29_ConversionsWithinQuotes ==
  GeoReturned =>
    \A i \in 1..Len(GeoSeries) : GeoSeries[i].conversions <= GeoSeries[i].quotes

\* ---- analytics logger
\* C30: AnalyticsLoggerService issues at most one IP lookup until
\* clearGeoCache is called, whatever the interleaving of its logPageView and
\* logQuoteRequest calls; when that lookup succeeds every event these calls
\* log carries its country data; and the cache does not hold empty geo data
\* unless the lookup failed.
C30_OneSharedGeoLookup ==
  /\ logger.lookups <= 1
  /\ logger.clears = 0 =>
       /\ logger.lookup = "ok" => \A e \in logger.events : e.geo = IpGeo
       /\ logger.lookup # "failed" => logger.geoDataCache # EmptyGeo

====
